---- MODULE Spec2Model ----
(***************************************************************************)
(* A model of the AVM2 event system of core/src/avm2/events.rs: the Event  *)
(* record, the DispatchList of an EventDispatcher, and the three-phase     *)
(* dispatch_event / dispatch_event_to_target protocol.                     *)
(*                                                                         *)
(* Execution is single-threaded.  The steps of dispatch_event are state     *)
(* functions on its frame (its locals and the event), one per statement or *)
(* loop turn; an action runs them up to the point where dispatch_event     *)
(* hands control to a listener or returns.  A listener is script code that *)
(* may call the Event and EventDispatcher API any number of times before   *)
(* it returns or throws.  The listener API is enabled outside a dispatch   *)
(* (pc = "idle") and inside a listener (pc = "in_listener"); the Event API *)
(* is enabled inside a listener, and what script code did to an event      *)
(* before dispatching it is part of the input of dispatch_event.           *)
(***************************************************************************)
EXTENDS Integers, Sequences, FiniteSets

(***************************************************************************)
(* Bounds of the model.                                                    *)
(***************************************************************************)
\* The number of add_event_listener / remove_event_listener calls in a run.
MaxListOps == 2

(***************************************************************************)
(* The universe: a display list root <- mid <- leaf, two handler function  *)
(* objects, two event types and two priority levels (i32 keys).            *)
(***************************************************************************)
NoObject == "None"
Objects == {"root", "mid", "leaf"}
Handlers == {"f", "g"}
EventTypes == {"click", "resize"}
Priorities == {0, 5}

\* enum EventPhase, with its discriminants.
Capturing == 1
AtTarget == 2
Bubbling == 3

\* enum PropagationMode.
PropagationMode == {"Allow", "Stop", "StopImmediate"}

VARIABLES
    dispatch_list,  \* Objects -> DispatchList: type -> priority -> Vec<EventHandler>
    event,          \* the Event handed to dispatch_event
    pc,             \* where control is: "idle", "in_listener", "done"
    this_target,    \* dispatch_event: `target`
    ancestor_list,  \* dispatch_event: `ancestor_list`, nearest ancestor first
    idx,            \* dispatch_event: position of the ancestor loop
    ret,            \* where dispatch_event_to_target returns to
    cur_target,     \* dispatch_event_to_target: `target`
    handlers,       \* dispatch_event_to_target: the collected `handlers`
    hidx,           \* dispatch_event_to_target: position of the handler loop
    result,         \* what dispatch_event returned: "none", "Ok(true)", "Ok(false)", "Err"
    list_ops,       \* add/remove calls made so far
    \* History of the dispatch_event call in progress (or just returned).
    reg_order,      \* per object and type, the registered pairs in registration order
    entry,          \* the event as it was when dispatch_event was entered
    phases,         \* the values passed to set_phase, in order
    passes,         \* one record per dispatch_event_to_target call
    calls,          \* one record per handler.call
    stop_calls,     \* Len(calls) when a listener first stopped propagation, or 0
    imm_calls,      \* Len(calls) when a listener first stopped immediately, or 0
    cancel_called,  \* a listener called cancel()
    failed_call,    \* Len(calls) when a handler.call returned Err, or 0
    last_call,      \* the last add/remove call, as the list specification records it
    \* AVM1 functions (avm1/function.rs)
    exec_call,      \* the last Executable::exec call: its inputs and what it did
    construct_call, \* the last FunctionObject::construct call: inputs and result
    \* AVM2 names (avm2/names.rs)
    name_query,     \* the last Multiname::contains_name call: inputs and result
    \* AVM1 display objects (avm1/globals/display_object.rs)
    remove_call,\* the last remove_display_object call: the clip before and after
    \* AVM2 JSON (avm2/globals/json.rs)
    json_call,\* the last AvmSerializer::serialize call: heap, replacer, value and result
    \* AVM1 XML attributes (avm1/object/xml_attributes_object.rs)
    xml_node, \* the attributes of the XML node: name -> string, or NoAttribute
    xml_base, \* the names defined on the base ScriptObject
    xml_call,\* the last call on the XmlAttributesObject, with the call before it
    \* AVM2 Dictionary (avm2/object/dictionary_object.rs)
    dict, \* the Dictionary: the enumerants of its base object and the keys of its object space
    dict_pc, \* the enumeration loop: idle, enumerating or done
    dict_index, \* the index the loop last got from get_next_enumerant
    dict_names,\* what get_enumerant_name returned for each index, in order
    \* the stage (display_object/stage.rs)
    stage, \* the StageData of the stage
    stage_call,\* the last call made on the stage, with what it fired
    \* reading multinames from the ABC constant pool (avm2/names.rs)
    abc_call,\* the last from_abc_multiname / from_abc_multiname_static call: constant pool, index and result
    \* the display state of the stage (display_object/stage.rs)
    display_state, \* StageData.display_state
    ui_fullscreen, \* whether the UI backend is in fullscreen
    display_call \* the last set_display_state / toggle_display_state call, with its UI calls and what it fired

vars == <<dispatch_list, event, pc, this_target, ancestor_list, idx, ret,
          cur_target, handlers, hidx, result, list_ops, reg_order, entry,
          phases, passes, calls, stop_calls, imm_calls, cancel_called, failed_call,
          last_call, exec_call, construct_call, name_query,
          remove_call,
          json_call,
          xml_node, xml_base, xml_call,
          dict, dict_pc, dict_index, dict_names,
          stage, stage_call,
          abc_call,
          display_state, ui_fullscreen, display_call>>

\* The variables of each part of the program, and for each part the variables
\* of the other parts, which its operations leave alone.
event_vars == <<dispatch_list, event, pc, this_target, ancestor_list, idx, ret,
                cur_target, handlers, hidx, result, list_ops, reg_order, entry,
                phases, passes, calls, stop_calls, imm_calls, cancel_called,
                failed_call, last_call>>
avm1_vars == <<exec_call, construct_call>>
names_vars == <<name_query>>
display_vars == <<remove_call>>
json_vars == <<json_call>>
xml_vars == <<xml_node, xml_base, xml_call>>
dict_vars == <<dict, dict_pc, dict_index, dict_names>>
stage_vars == <<stage, stage_call>>
abc_vars == <<abc_call>>
screen_vars == <<display_state, ui_fullscreen, display_call>>
not_event_vars == <<avm1_vars, names_vars, display_vars, json_vars, xml_vars, dict_vars, stage_vars, abc_vars, screen_vars>>
not_avm1_vars == <<event_vars, names_vars, display_vars, json_vars, xml_vars, dict_vars, stage_vars, abc_vars, screen_vars>>
not_names_vars == <<event_vars, avm1_vars, display_vars, json_vars, xml_vars, dict_vars, stage_vars, abc_vars, screen_vars>>
not_display_vars == <<event_vars, avm1_vars, names_vars, json_vars, xml_vars, dict_vars, stage_vars, abc_vars, screen_vars>>
not_json_vars == <<event_vars, avm1_vars, names_vars, display_vars, xml_vars, dict_vars, stage_vars, abc_vars, screen_vars>>
not_xml_vars == <<event_vars, avm1_vars, names_vars, display_vars, json_vars, dict_vars, stage_vars, abc_vars, screen_vars>>
not_dict_vars == <<event_vars, avm1_vars, names_vars, display_vars, json_vars, xml_vars, stage_vars, abc_vars, screen_vars>>
not_stage_vars == <<event_vars, avm1_vars, names_vars, display_vars, json_vars, xml_vars, dict_vars, abc_vars, screen_vars>>
not_abc_vars == <<event_vars, avm1_vars, names_vars, display_vars, json_vars, xml_vars, dict_vars, stage_vars, screen_vars>>
not_screen_vars == <<event_vars, avm1_vars, names_vars, display_vars, json_vars, xml_vars, dict_vars, stage_vars, abc_vars>>

dispatch_vars == <<this_target, ancestor_list, idx, ret, cur_target, handlers, hidx>>
hist_vars == <<entry, phases, passes, calls, stop_calls, imm_calls, cancel_called,
               failed_call>>
NoCall == [op |-> "none"]

(***************************************************************************)
(* Event                                                                   *)
(***************************************************************************)
\* Event::new
EventNew(event_type) ==
    [bubbles |-> FALSE, cancelable |-> FALSE, cancelled |-> FALSE,
     propagation |-> "Allow", current_target |-> NoObject,
     event_phase |-> AtTarget, target |-> NoObject, event_type |-> event_type]

is_bubbling(e) == e.bubbles
set_bubbles(e, bubbling) == [e EXCEPT !.bubbles = bubbling]
is_cancelable(e) == e.cancelable
set_cancelable(e, cancelable) == [e EXCEPT !.cancelable = cancelable]
is_cancelled(e) == e.cancelled

cancel_unchecked(e) == [e EXCEPT !.cancelled = TRUE]
cancel(e) == IF e.cancelable THEN [e EXCEPT !.cancelled = TRUE] ELSE e

is_propagation_stopped(e) == e.propagation # "Allow"

stop_propagation(e) ==
    IF e.propagation # "StopImmediate" THEN [e EXCEPT !.propagation = "Stop"] ELSE e

never_stopped_immediately(e) == FALSE
stopped_at_all(e) == e.propagation # "Allow"
is_propagation_stopped_immediately(e) == e.propagation = "StopImmediate"

stop_immediate_propagation(e) == [e EXCEPT !.propagation = "StopImmediate"]

set_phase(e, phase) == [e EXCEPT !.event_phase = phase]
set_target(e, target) == [e EXCEPT !.target = target]
set_current_target(e, current_target) == [e EXCEPT !.current_target = current_target]

(***************************************************************************)
(* DispatchList: FnvHashMap<AvmString, BTreeMap<i32, Vec<EventHandler>>>.  *)
(* A missing map entry and an entry holding an empty Vec are the same to   *)
(* every operation below, so both maps are total functions to sequences.   *)
(***************************************************************************)
\* EventHandler::new
EventHandlerNew(handler, use_capture) == [handler |-> handler, use_capture |-> use_capture]

\* impl PartialEq for EventHandler
EventHandlerEq(a, b) == a.use_capture = b.use_capture /\ a.handler = b.handler

\* Vec::contains under EventHandler::eq
Contains(set, eh) == \E i \in 1..Len(set) : EventHandlerEq(set[i], eh)

\* DispatchList::new
DispatchListNew == [ev \in EventTypes |-> [p \in Priorities |-> <<>>]]

add_event_listener_same_priority(dl, ev, priority, handler, use_capture) ==
    LET new_handler == EventHandlerNew(handler, use_capture) IN
    IF Contains(dl[ev][priority], new_handler)
    THEN dl
    ELSE [dl EXCEPT ![ev][priority] = Append(@, new_handler)]

add_event_listener_moving(dl, ev, priority, handler, use_capture) ==
    LET new_handler == EventHandlerNew(handler, use_capture) IN
    [dl EXCEPT ![ev] = [prio \in Priorities |->
        LET others == SelectSeq(dl[ev][prio], LAMBDA eh : ~EventHandlerEq(eh, new_handler))
        IN  IF prio = priority THEN Append(others, new_handler) ELSE others]]

\* DispatchList::add_event_listener
add_event_listener(dl, ev, priority, handler, use_capture) ==
    LET new_handler == EventHandlerNew(handler, use_capture) IN
    IF \E other_prio \in Priorities : Contains(dl[ev][other_prio], new_handler)
    THEN dl
    ELSE [dl EXCEPT ![ev][priority] = Append(@, new_handler)]

\* iter().position(|h| *h == old_handler): 0 when there is none
Position(set, eh) ==
    IF Contains(set, eh)
    THEN CHOOSE i \in 1..Len(set) :
            /\ EventHandlerEq(set[i], eh)
            /\ \A j \in 1..(i - 1) : ~EventHandlerEq(set[j], eh)
    ELSE 0

\* Vec::remove(pos)
RemoveAt(set, pos) ==
    [i \in 1..(Len(set) - 1) |-> IF i < pos THEN set[i] ELSE set[i + 1]]

remove_event_listener_any_capture(dl, ev, handler, use_capture) ==
    [dl EXCEPT ![ev] = [prio \in Priorities |->
        SelectSeq(dl[ev][prio], LAMBDA eh : eh.handler # handler)]]

\* DispatchList::remove_event_listener
remove_event_listener(dl, ev, handler, use_capture) ==
    LET old_handler == EventHandlerNew(handler, use_capture) IN
    [dl EXCEPT ![ev] = [prio \in Priorities |->
        LET set == dl[ev][prio]
            pos == Position(set, old_handler)
        IN  IF pos # 0 THEN RemoveAt(set, pos) ELSE set]]

\* DispatchList::has_event_listener
has_event_listener(dl, ev) == \E prio \in Priorities : dl[ev][prio] # <<>>

MaxOf(S) == CHOOSE x \in S : \A y \in S : y <= x

\* BTreeMap::iter().rev().flat_map(|(_p, v)| v.iter()): highest key first
RECURSIVE FlatRev(_, _)
FlatRev(sheaf, prios) ==
    IF prios = {} THEN <<>>
    ELSE LET p == MaxOf(prios) IN sheaf[p] \o FlatRev(sheaf, prios \ {p})

RECURSIVE FlatFwd(_, _)
FlatFwd(sheaf, prios) ==
    IF prios = {} THEN <<>>
    ELSE LET p == MaxOf(prios) IN FlatFwd(sheaf, prios \ {p}) \o sheaf[p]

HandlersOf(ehs) == [i \in 1..Len(ehs) |-> ehs[i].handler]

iter_event_handlers_ascending(dl, ev, use_capture) ==
    HandlersOf(SelectSeq(FlatFwd(dl[ev], Priorities),
                         LAMBDA eh : eh.use_capture = use_capture))

\* DispatchList::iter_event_handlers
iter_event_handlers(dl, ev, use_capture) ==
    HandlersOf(SelectSeq(FlatRev(dl[ev], Priorities),
                         LAMBDA eh : eh.use_capture = use_capture))

(***************************************************************************)
(* The display hierarchy.                                                  *)
(***************************************************************************)
\* parent_of
parent_of(target) ==
    CASE target = "leaf" -> "mid"
      [] target = "mid" -> "root"
      [] OTHER -> NoObject

\* dispatch_event: the `while let Some(par) = parent` loop
RECURSIVE AncestorList(_)
AncestorList(target) ==
    IF parent_of(target) = NoObject THEN <<>>
    ELSE <<parent_of(target)>> \o AncestorList(parent_of(target))

(***************************************************************************)
(* Initial state: every EventDispatcher has an empty dispatch list and no  *)
(* event is being dispatched.                                              *)
(***************************************************************************)
NoEvent == EventNew("click")

Init ==
    /\ dispatch_list = [o \in Objects |-> DispatchListNew]
    /\ event = NoEvent
    /\ pc = "idle"
    /\ this_target = NoObject
    /\ ancestor_list = <<>>
    /\ idx = 0
    /\ ret = "idle"
    /\ cur_target = NoObject
    /\ handlers = <<>>
    /\ hidx = 0
    /\ result = "none"
    /\ list_ops = 0
    /\ reg_order = [o \in Objects |-> [ev \in EventTypes |-> <<>>]]
    /\ entry = NoEvent
    /\ phases = <<>>
    /\ passes = <<>>
    /\ calls = <<>>
    /\ stop_calls = 0
    /\ imm_calls = 0
    /\ cancel_called = FALSE
    /\ failed_call = 0
    /\ last_call = NoCall
    /\ exec_call = NoCall
    /\ construct_call = NoCall
    /\ name_query = NoCall
    /\ remove_call = NoCall
    /\ json_call = NoCall
    /\ xml_node = [n \in {"id", "x"} |-> "NoAttribute"]
    /\ xml_base = {}
    /\ xml_call = [op |-> "none", name |-> "", value |-> [type |-> "None", repr |-> ""],
                   result |-> [type |-> "None", repr |-> ""],
                   prev |-> [op |-> "none", name |-> "",
                             value |-> [type |-> "None", repr |-> ""],
                             result |-> [type |-> "None", repr |-> ""]]]
    /\ dict = [enumerants |-> <<>>, object_space |-> <<>>]
    /\ dict_pc = "idle"
    /\ dict_index = 0
    /\ dict_names = <<>>
    /\ stage = [movie_size |-> <<1, 1>>, stage_size |-> <<1, 1>>, scale_mode |-> "ShowAll",
                align |-> {}, viewport_size |-> <<1, 1>>, viewport_scale_factor |-> 1]
    /\ stage_call = [op |-> "none", built |-> FALSE, prev_stage_size |-> <<1, 1>>,
                     fired |-> <<>>]
    /\ abc_call = NoCall
    /\ display_state = "Normal"
    /\ ui_fullscreen = FALSE
    /\ display_call = [op |-> "none", requested |-> "Normal", prev |-> "Normal",
                       ui_calls |-> <<>>, ui_ok |-> TRUE, fired |-> <<>>]

\* Script code runs outside a dispatch or inside a listener being called.
InScript == pc \in {"idle", "in_listener"}
InListener == pc = "in_listener"

(***************************************************************************)
(* The events script code hands to dispatch_event: constructed with a type *)
(* and the bubbles and cancelable flags, and then possibly cancelled or    *)
(* stopped before the dispatch.                                            *)
(***************************************************************************)
PreOps == {"none", "cancel", "stop_propagation", "stop_immediate_propagation"}

PreOp(e, op) ==
    CASE op = "cancel" -> cancel(e)
      [] op = "stop_propagation" -> stop_propagation(e)
      [] op = "stop_immediate_propagation" -> stop_immediate_propagation(e)
      [] OTHER -> e

EventInputs(cancelables, ops) ==
    {PreOp(set_cancelable(set_bubbles(EventNew(t), b), c), op) :
        t \in EventTypes, b \in BOOLEAN, c \in cancelables, op \in ops}

(***************************************************************************)
(* The API that script code calls.                                         *)
(***************************************************************************)
\* Event::cancel, called by a listener
Cancel ==
    /\ InListener
    /\ event' = cancel(event)
    /\ cancel_called' = TRUE
    /\ UNCHANGED <<last_call, failed_call, dispatch_list, pc, dispatch_vars, result, list_ops, reg_order,
                   entry, phases, passes, calls, stop_calls, imm_calls>>
    /\ UNCHANGED not_event_vars

\* Event::stop_propagation, called by a listener
StopPropagation ==
    /\ InListener
    /\ event' = stop_propagation(event)
    /\ stop_calls' = IF stop_calls = 0 THEN Len(calls) ELSE stop_calls
    /\ UNCHANGED <<last_call, failed_call, dispatch_list, pc, dispatch_vars, result, list_ops, reg_order,
                   entry, phases, passes, calls, imm_calls, cancel_called>>
    /\ UNCHANGED not_event_vars

\* Event::stop_immediate_propagation, called by a listener
StopImmediatePropagation ==
    /\ InListener
    /\ event' = stop_immediate_propagation(event)
    /\ stop_calls' = IF stop_calls = 0 THEN Len(calls) ELSE stop_calls
    /\ imm_calls' = IF imm_calls = 0 THEN Len(calls) ELSE imm_calls
    /\ UNCHANGED <<last_call, failed_call, dispatch_list, pc, dispatch_vars, result, list_ops, reg_order,
                   entry, phases, passes, calls, cancel_called>>
    /\ UNCHANGED not_event_vars

\* DispatchList::add_event_listener on the dispatch list of `obj`
AddEventListener(obj, ev, priority, handler, use_capture) ==
    /\ InScript
    /\ list_ops < MaxListOps
    /\ list_ops' = list_ops + 1
    /\ dispatch_list' = [dispatch_list EXCEPT ![obj] =
            add_event_listener(@, ev, priority, handler, use_capture)]
    /\ reg_order' = IF dispatch_list' = dispatch_list THEN reg_order
                    ELSE [reg_order EXCEPT ![obj][ev] =
                            Append(@, EventHandlerNew(handler, use_capture))]
    /\ UNCHANGED <<event, pc, dispatch_vars, result, hist_vars>>
    /\ UNCHANGED not_event_vars

\* DispatchList::remove_event_listener on the dispatch list of `obj`
RemoveEventListener(obj, ev, handler, use_capture) ==
    /\ InScript
    /\ list_ops < MaxListOps
    /\ list_ops' = list_ops + 1
    /\ dispatch_list' = [dispatch_list EXCEPT ![obj] =
            remove_event_listener(@, ev, handler, use_capture)]
    /\ reg_order' = [reg_order EXCEPT ![obj][ev] =
            SelectSeq(@, LAMBDA eh : eh # EventHandlerNew(handler, use_capture))]
    /\ UNCHANGED <<event, pc, dispatch_vars, result, hist_vars>>
    /\ UNCHANGED not_event_vars

(***************************************************************************)
(* The frame of a dispatch_event call: its locals, the locals of the       *)
(* dispatch_event_to_target call it is in, the event, and the history.     *)
(* In a frame, pc also takes the values "capturing", "at_target",          *)
(* "after_target", "bubbling" and "to_target".                             *)
(***************************************************************************)
Frame ==
    [pc |-> pc, event |-> event, this_target |-> this_target,
     ancestor_list |-> ancestor_list, idx |-> idx, ret |-> ret,
     cur_target |-> cur_target, handlers |-> handlers, hidx |-> hidx,
     result |-> result, phases |-> phases, passes |-> passes, calls |-> calls]

SetFrame(s) ==
    /\ pc' = s.pc
    /\ event' = s.event
    /\ this_target' = s.this_target
    /\ ancestor_list' = s.ancestor_list
    /\ idx' = s.idx
    /\ ret' = s.ret
    /\ cur_target' = s.cur_target
    /\ handlers' = s.handlers
    /\ hidx' = s.hidx
    /\ result' = s.result
    /\ phases' = s.phases
    /\ passes' = s.passes
    /\ calls' = s.calls

(***************************************************************************)
(* dispatch_event_to_target                                                *)
(***************************************************************************)
use_capture_at_target(e) == e.event_phase = AtTarget

use_capture_not_bubbling(e) == e.event_phase # Bubbling
\* dispatch_event_to_target: `let use_capture = evtmut.phase() == EventPhase::Capturing`
use_capture_for(e) == e.event_phase = Capturing

dispatch_event_to_target_early_snapshot(s, target, return_to) ==
    [s EXCEPT
        !.event = set_current_target(s.event, target),
        !.handlers = iter_event_handlers(
                        IF last_call.op # "none" /\ last_call.obj = target
                        THEN last_call.before ELSE dispatch_list[target],
                        s.event.event_type, use_capture_for(s.event)),
        !.hidx = 1,
        !.cur_target = target,
        !.ret = return_to,
        !.pc = "to_target",
        !.passes = Append(s.passes,
            [target |-> target, phase |-> s.event.event_phase,
             propagation |-> s.event.propagation,
             list |-> dispatch_list[target][s.event.event_type],
             order |-> reg_order[target][s.event.event_type]])]

\* dispatch_event_to_target up to the handler loop: the current target is set
\* and the handlers to call are collected.
dispatch_event_to_target(s, target, return_to) ==
    [s EXCEPT
        !.event = set_current_target(s.event, target),
        !.handlers = iter_event_handlers(dispatch_list[target], s.event.event_type,
                                         use_capture_for(s.event)),
        !.hidx = 1,
        !.cur_target = target,
        !.ret = return_to,
        !.pc = "to_target",
        !.passes = Append(s.passes,
            [target |-> target, phase |-> s.event.event_phase,
             propagation |-> s.event.propagation,
             list |-> dispatch_list[target][s.event.event_type],
             order |-> reg_order[target][s.event.event_type]])]

LiveHandlers(s) ==
    iter_event_handlers(dispatch_list[s.cur_target], s.event.event_type,
                        use_capture_for(s.event))
\* dispatch_event_to_target: the `handlers` the loop iterates over
PassHandlers(s) == s.handlers

\* dispatch_event_to_target: one turn of `for handler in handlers.iter()`, up
\* to `handler.call`
handler_loop(s) ==
    IF s.hidx <= Len(PassHandlers(s)) /\ ~is_propagation_stopped_immediately(s.event)
    THEN [s EXCEPT
            !.calls = Append(s.calls,
                [target |-> s.cur_target, handler |-> PassHandlers(s)[s.hidx],
                 pass |-> Len(s.passes)]),
            !.hidx = s.hidx + 1,
            !.pc = "in_listener"]
    ELSE [s EXCEPT !.pc = s.ret]

(***************************************************************************)
(* dispatch_event                                                          *)
(***************************************************************************)
\* dispatch_event: the target is `this` unless it names another target; the
\* dispatchers of this model name none.
TargetOf(this) == this

dispatch_event_enter_resetting(s, this, ev) ==
    [s EXCEPT
        !.this_target = TargetOf(this),
        !.ancestor_list = AncestorList(TargetOf(this)),
        !.event = [set_target(set_phase(ev, Capturing), TargetOf(this))
                        EXCEPT !.propagation = "Allow"],
        !.idx = Len(AncestorList(TargetOf(this))),
        !.phases = <<Capturing>>,
        !.pc = "capturing"]

\* dispatch_event up to the capturing loop
dispatch_event_enter(s, this, ev) ==
    [s EXCEPT
        !.this_target = TargetOf(this),
        !.ancestor_list = AncestorList(TargetOf(this)),
        !.event = set_target(set_phase(ev, Capturing), TargetOf(this)),
        !.idx = Len(AncestorList(TargetOf(this))),
        !.phases = <<Capturing>>,
        !.pc = "capturing"]

capturing_loop_without_set_phase(s) ==
    IF s.idx >= 1 /\ ~is_propagation_stopped(s.event)
    THEN [dispatch_event_to_target(s, s.ancestor_list[s.idx], "capturing")
            EXCEPT !.idx = s.idx - 1]
    ELSE [s EXCEPT !.pc = "at_target"]

capturing_loop_forward(s) ==
    IF s.idx >= 1 /\ ~is_propagation_stopped(s.event)
    THEN [dispatch_event_to_target(s,
                s.ancestor_list[Len(s.ancestor_list) - s.idx + 1], "capturing")
            EXCEPT !.idx = s.idx - 1]
    ELSE [s EXCEPT
            !.event = set_phase(s.event, AtTarget),
            !.phases = Append(s.phases, AtTarget),
            !.pc = "at_target"]

\* dispatch_event: one turn of `for ancestor in ancestor_list.iter().rev()`, and
\* set_phase(AtTarget) once the loop is left
capturing_loop(s) ==
    IF s.idx >= 1 /\ ~is_propagation_stopped(s.event)
    THEN [dispatch_event_to_target(s, s.ancestor_list[s.idx], "capturing")
            EXCEPT !.idx = s.idx - 1]
    ELSE [s EXCEPT
            !.event = set_phase(s.event, AtTarget),
            !.phases = Append(s.phases, AtTarget),
            !.pc = "at_target"]

\* dispatch_event: `if !is_propagation_stopped() { dispatch_event_to_target(target) }`
at_target(s) ==
    IF ~is_propagation_stopped(s.event)
    THEN dispatch_event_to_target(s, s.this_target, "after_target")
    ELSE [s EXCEPT !.pc = "after_target"]

\* dispatch_event: set_phase(EventPhase::Bubbling)
set_phase_bubbling(s) ==
    [s EXCEPT
        !.event = set_phase(s.event, Bubbling),
        !.phases = Append(s.phases, Bubbling),
        !.idx = 1,
        !.pc = "bubbling"]

\* dispatch_event: `Ok(was_not_cancelled)`
Ok(b) == IF b THEN "Ok(true)" ELSE "Ok(false)"

bubbling_loop_always(s) ==
    IF s.idx <= Len(s.ancestor_list) /\ ~is_propagation_stopped(s.event)
    THEN [dispatch_event_to_target(s, s.ancestor_list[s.idx], "bubbling")
            EXCEPT !.idx = s.idx + 1]
    ELSE [s EXCEPT !.result = Ok(~is_cancelled(s.event)), !.pc = "done"]

\* dispatch_event: one turn of `for ancestor in ancestor_list.iter()` under
\* `if is_bubbling()`, and the return of `!is_cancelled()` once it is left
bubbling_loop(s) ==
    IF is_bubbling(s.event) /\ s.idx <= Len(s.ancestor_list)
        /\ ~is_propagation_stopped(s.event)
    THEN [dispatch_event_to_target(s, s.ancestor_list[s.idx], "bubbling")
            EXCEPT !.idx = s.idx + 1]
    ELSE [s EXCEPT !.result = Ok(~is_cancelled(s.event)), !.pc = "done"]

\* The next statement of dispatch_event or dispatch_event_to_target.
Step(s) ==
    CASE s.pc = "capturing" -> capturing_loop(s)
      [] s.pc = "at_target" -> at_target(s)
      [] s.pc = "after_target" -> set_phase_bubbling(s)
      [] s.pc = "bubbling" -> bubbling_loop(s)
      [] s.pc = "to_target" -> handler_loop(s)

\* dispatch_event runs until it calls a listener or returns.
RECURSIVE Run(_)
Run(s) == IF s.pc \in {"in_listener", "done"} THEN s ELSE Run(Step(s))

\* dispatch_event is called on `this` with the event `ev`.
DispatchEvent(this, ev) ==
    /\ pc = "idle"
    /\ SetFrame(Run(dispatch_event_enter(Frame, this, ev)))
    /\ entry' = ev
    /\ UNCHANGED <<last_call, failed_call, dispatch_list, list_ops, reg_order, stop_calls, imm_calls, cancel_called>>
    /\ UNCHANGED not_event_vars

\* handler.call(...) returned Ok
ListenerReturn ==
    /\ pc = "in_listener"
    /\ SetFrame(Run([Frame EXCEPT !.pc = "to_target"]))
    /\ UNCHANGED <<last_call, failed_call, dispatch_list, list_ops, reg_order, entry, stop_calls, imm_calls,
                   cancel_called>>
    /\ UNCHANGED not_event_vars

ListenerError_swallowed ==
    /\ pc = "in_listener"
    /\ SetFrame(Run([Frame EXCEPT !.pc = "to_target"]))
    /\ failed_call' = Len(calls)
    /\ UNCHANGED <<last_call, dispatch_list, list_ops, reg_order, entry, stop_calls, imm_calls,
                   cancel_called>>
    /\ UNCHANGED not_event_vars

\* handler.call(...) returned Err: `?` leaves dispatch_event_to_target and dispatch_event
ListenerError ==
    /\ pc = "in_listener"
    /\ pc' = "done"
    /\ result' = "Err"
    /\ failed_call' = Len(calls)
    /\ UNCHANGED <<last_call, dispatch_list, event, dispatch_vars, list_ops, reg_order,
                   entry, phases, passes, calls, stop_calls, imm_calls, cancel_called>>
    /\ UNCHANGED not_event_vars

\* The caller of dispatch_event has its result; the frame of the call is gone.
Return ==
    /\ pc = "done"
    /\ pc' = "idle"
    /\ event' = NoEvent
    /\ result' = "none"
    /\ this_target' = NoObject
    /\ ancestor_list' = <<>>
    /\ idx' = 0
    /\ ret' = "idle"
    /\ cur_target' = NoObject
    /\ handlers' = <<>>
    /\ hidx' = 0
    /\ entry' = NoEvent
    /\ phases' = <<>>
    /\ passes' = <<>>
    /\ calls' = <<>>
    /\ stop_calls' = 0
    /\ imm_calls' = 0
    /\ cancel_called' = FALSE
    /\ failed_call' = 0
    /\ UNCHANGED <<last_call, dispatch_list, list_ops, reg_order>>
    /\ UNCHANGED not_event_vars

(***************************************************************************)
(* Spec: propagation.  Listeners for "click" are registered and removed,   *)
(* before and during dispatches, on any object, of events of either type,  *)
(* bubbling or not, stopped beforehand or not; listeners stop propagation, *)
(* change dispatch lists, return or fail.  The events are not cancelable   *)
(* and no listener calls cancel(), which writes nothing but the cancelled  *)
(* flag: CancelSpec has both.                                              *)
(***************************************************************************)
ListenedTypes == {"click"}

Next ==
    \/ StopPropagation
    \/ StopImmediatePropagation
    \/ \E obj \in Objects, ev \in ListenedTypes, priority \in Priorities,
          handler \in Handlers, use_capture \in BOOLEAN :
            AddEventListener(obj, ev, priority, handler, use_capture)
                /\ UNCHANGED last_call
    \/ \E obj \in Objects, ev \in ListenedTypes, handler \in Handlers,
          use_capture \in BOOLEAN :
            RemoveEventListener(obj, ev, handler, use_capture)
                /\ UNCHANGED last_call
    \/ \E this \in Objects, ev \in EventInputs({FALSE}, PreOps \ {"cancel"}) :
            DispatchEvent(this, ev)
    \/ ListenerReturn
    \/ ListenerError
    \/ Return

Spec == Init /\ [][Next]_vars

(***************************************************************************)
(* CancelSpec: cancellation.  One handler function is registered and       *)
(* removed, at one priority, for "click", on any object and with either    *)
(* capture flag; events of every kind are dispatched, cancelable or not,   *)
(* cancelled or stopped beforehand or not; listeners cancel the event,     *)
(* stop propagation, change dispatch lists, return or fail.                *)
(***************************************************************************)
CancelNext ==
    \/ Cancel
    \/ StopPropagation
    \/ StopImmediatePropagation
    \/ \E obj \in Objects, use_capture \in BOOLEAN :
            AddEventListener(obj, "click", 0, "f", use_capture)
                /\ UNCHANGED last_call
    \/ \E obj \in Objects, use_capture \in BOOLEAN :
            RemoveEventListener(obj, "click", "f", use_capture)
                /\ UNCHANGED last_call
    \/ \E this \in Objects, ev \in EventInputs(BOOLEAN, PreOps) : DispatchEvent(this, ev)
    \/ ListenerReturn
    \/ ListenerError
    \/ Return

CancelSpec == Init /\ [][CancelNext]_vars

(***************************************************************************)
(* ListSpec: the DispatchList operations alone, on every object and for    *)
(* both event types, each call recorded with the list it was made on.      *)
(***************************************************************************)
ListAdd(obj, ev, priority, handler, use_capture) ==
    /\ AddEventListener(obj, ev, priority, handler, use_capture)
    /\ last_call' = [op |-> "add", obj |-> obj, ev |-> ev, priority |-> priority,
                     handler |-> handler, use_capture |-> use_capture,
                     before |-> dispatch_list[obj]]

ListRemove(obj, ev, handler, use_capture) ==
    /\ RemoveEventListener(obj, ev, handler, use_capture)
    /\ last_call' = [op |-> "remove", obj |-> obj, ev |-> ev,
                     handler |-> handler, use_capture |-> use_capture,
                     before |-> dispatch_list[obj]]

ListNext ==
    \/ \E obj \in Objects, ev \in EventTypes, priority \in Priorities,
          handler \in Handlers, use_capture \in BOOLEAN :
            ListAdd(obj, ev, priority, handler, use_capture)
    \/ \E obj \in Objects, ev \in EventTypes, handler \in Handlers, use_capture \in BOOLEAN :
            ListRemove(obj, ev, handler, use_capture)

ListSpec == Init /\ [][ListNext]_vars

(***************************************************************************)
(* What the history says about a dispatch.                                 *)
(***************************************************************************)
\* The number of registrations of (handler, use_capture) in a sheaf
\* (priority -> Vec<EventHandler>), over all priorities.
Registrations(sheaf, handler, use_capture) ==
    LET Hits(prio) == {i \in 1..Len(sheaf[prio]) :
                        sheaf[prio][i] = EventHandlerNew(handler, use_capture)}
        RECURSIVE Sum(_)
        Sum(prios) == IF prios = {} THEN 0
                      ELSE LET p == MaxOf(prios)
                           IN Cardinality(Hits(p)) + Sum(prios \ {p})
    IN Sum(Priorities)

IsRegistered(sheaf, handler, use_capture) ==
    \E prio \in Priorities : \E i \in 1..Len(sheaf[prio]) :
        sheaf[prio][i] = EventHandlerNew(handler, use_capture)

\* The priority a registered pair is registered at.
PriorityOf(sheaf, handler, use_capture) ==
    CHOOSE prio \in Priorities :
        \E i \in 1..Len(sheaf[prio]) : sheaf[prio][i] = EventHandlerNew(handler, use_capture)

\* The position of a pair in a registration order.
OrderOf(order, handler, use_capture) ==
    CHOOSE i \in 1..Len(order) : order[i] = EventHandlerNew(handler, use_capture)

\* The calls made in pass p, as positions of `calls`.
CallsOf(p) == {i \in 1..Len(calls) : calls[i].pass = p}
CallsOfHandler(p, handler) == {i \in CallsOf(p) : calls[i].handler = handler}

\* Pass p has returned to dispatch_event.
PassFinished(p) ==
    \/ p < Len(passes)
    \/ p = Len(passes) /\ pc = "done" /\ result # "Err"

\* A listener of pass p stopped immediate propagation.
PassStoppedImmediately(p) == imm_calls # 0 /\ calls[imm_calls].pass = p

\* Pass p ran to the end of its handlers.
PassComplete(p) == PassFinished(p) /\ ~PassStoppedImmediately(p)

Returned == pc = "done" /\ result \in {Ok(TRUE), Ok(FALSE)}

(***************************************************************************)
(* C1.  Within one dispatch_event call the values given to the event's     *)
(* phase are Capturing, then AtTarget, then Bubbling, each once and in     *)
(* that order: at every point of the call the phases set so far are a      *)
(* prefix of that sequence and the event is in the last of them, the       *)
(* phases the listeners are called in never decrease, and a call that      *)
(* returns a value has been through all three, whether or not the event    *)
(* bubbles.                                                                *)
(***************************************************************************)
C1_PhaseOrder ==
    pc # "idle" =>
        /\ Len(phases) \in 1..3
        /\ \A i \in 1..Len(phases) : phases[i] = <<Capturing, AtTarget, Bubbling>>[i]
        /\ event.event_phase = phases[Len(phases)]
        /\ \A p \in 1..Len(passes), q \in 1..Len(passes) :
                p < q => passes[p].phase <= passes[q].phase
        /\ Returned => phases = <<Capturing, AtTarget, Bubbling>>

\* A non-bubbling event whose dispatch called listeners and returned.
C1_Witness ==
    /\ Returned
    /\ ~event.bubbles
    /\ Len(calls) > 0
    /\ event.event_phase = Bubbling

(***************************************************************************)
(* C2 as claimed.  When propagation has not been stopped before the target *)
(* is reached, every listener registered on the target for the event type, *)
(* with use_capture = true or false, is invoked in the at-target pass.     *)
(***************************************************************************)
C2_AllTargetListeners ==
    \A p \in 1..Len(passes) :
        passes[p].phase = AtTarget /\ PassComplete(p) =>
            \A h \in Handlers, c \in BOOLEAN :
                IsRegistered(passes[p].list, h, c) =>
                    Cardinality(CallsOfHandler(p, h))
                        = Cardinality({d \in BOOLEAN : IsRegistered(passes[p].list, h, d)})

(***************************************************************************)
(* C2 as amended.  When propagation has not been stopped before the target *)
(* is reached, the at-target pass invokes every listener registered on the *)
(* target for the event type with use_capture = false, once each, and no   *)
(* listener registered there with use_capture = true.                      *)
(***************************************************************************)
C2_TargetListeners ==
    /\ Returned /\ entry.propagation = "Allow"
            /\ (stop_calls = 0 \/ passes[calls[stop_calls].pass].phase # Capturing) =>
        \E p \in 1..Len(passes) : passes[p].phase = AtTarget
    /\ \A p \in 1..Len(passes) :
        passes[p].phase = AtTarget =>
            /\ passes[p].target = this_target
            /\ \A h \in Handlers :
                /\ Cardinality(CallsOfHandler(p, h)) <= 1
                /\ CallsOfHandler(p, h) # {} => IsRegistered(passes[p].list, h, FALSE)
                /\ PassComplete(p) /\ IsRegistered(passes[p].list, h, FALSE) =>
                        CallsOfHandler(p, h) # {}

\* A complete at-target pass on a target that has a listener of each kind: the
\* use_capture = false one was called, the use_capture = true one was not.
C2_Witness ==
    \E p \in 1..Len(passes) :
        /\ passes[p].phase = AtTarget
        /\ PassComplete(p)
        /\ \E h \in Handlers, g \in Handlers :
            /\ h # g
            /\ IsRegistered(passes[p].list, h, FALSE)
            /\ IsRegistered(passes[p].list, g, TRUE)
            /\ ~IsRegistered(passes[p].list, g, FALSE)
            /\ CallsOfHandler(p, h) # {}
            /\ CallsOfHandler(p, g) = {}

\* The passes of a phase, as positions of `passes`.
PassesIn(phase) == {p \in 1..Len(passes) : passes[p].phase = phase}

\* A listener stopped propagation (plainly or immediately) in pass p.
StoppedIn(p) == stop_calls # 0 /\ calls[stop_calls].pass = p

(***************************************************************************)
(* C3.  Capturing phase: the passes made are on ancestors of the target,   *)
(* the first on the outermost root and each next one on the child of the   *)
(* one before; when the target itself is reached every ancestor has been   *)
(* visited, the last being the target's parent.  Each pass calls only      *)
(* listeners registered with use_capture = true, and no pass starts once   *)
(* propagation has been stopped.                                           *)
(***************************************************************************)
C3_Capturing ==
    /\ \A p \in PassesIn(Capturing) :
        /\ passes[p].target # this_target
        /\ passes[p].propagation = "Allow"
        /\ ~\E q \in 1..(p - 1) : StoppedIn(q)
        /\ IF p = 1 THEN parent_of(passes[p].target) = NoObject
           ELSE /\ passes[p - 1].phase = Capturing
                /\ parent_of(passes[p].target) = passes[p - 1].target
        /\ \A h \in Handlers :
            /\ Cardinality(CallsOfHandler(p, h)) <= 1
            /\ CallsOfHandler(p, h) # {} => IsRegistered(passes[p].list, h, TRUE)
    /\ \A p \in PassesIn(AtTarget) :
        IF p = 1 THEN parent_of(this_target) = NoObject
        ELSE /\ passes[p - 1].phase = Capturing
             /\ passes[p - 1].target = parent_of(this_target)

\* Capture listeners were called on the root and then on its child, which is
\* the parent of the target.
C3_Witness ==
    /\ Len(calls) >= 2
    /\ calls[1].target = "root" /\ passes[calls[1].pass].phase = Capturing
    /\ calls[2].target = "mid" /\ passes[calls[2].pass].phase = Capturing
    /\ this_target = "leaf"

(***************************************************************************)
(* C4.  Bubbling phase: passes are made only for an event whose bubbles    *)
(* flag is set, the first on the target's parent and each next one on the  *)
(* parent of the one before, up to the root unless propagation is stopped; *)
(* each calls only listeners registered with use_capture = false, and no   *)
(* pass starts once propagation has been stopped.  For a non-bubbling      *)
(* event no listener is called on an ancestor outside the capturing phase. *)
(***************************************************************************)
C4_Bubbling ==
    /\ \A p \in PassesIn(Bubbling) :
        /\ event.bubbles
        /\ passes[p].propagation = "Allow"
        /\ ~\E q \in 1..(p - 1) : StoppedIn(q)
        /\ IF p = 1 \/ passes[p - 1].phase # Bubbling
           THEN passes[p].target = parent_of(this_target)
           ELSE passes[p].target = parent_of(passes[p - 1].target)
        /\ \A h \in Handlers :
            /\ Cardinality(CallsOfHandler(p, h)) <= 1
            /\ CallsOfHandler(p, h) # {} => IsRegistered(passes[p].list, h, FALSE)
    /\ Returned /\ event.bubbles /\ event.propagation = "Allow"
            /\ parent_of(this_target) # NoObject =>
        /\ passes[Len(passes)].phase = Bubbling
        /\ parent_of(passes[Len(passes)].target) = NoObject
    /\ ~event.bubbles =>
        \A i \in 1..Len(calls) :
            calls[i].target # this_target => passes[calls[i].pass].phase = Capturing

\* Bubble listeners were called on the target's parent and then on the root.
C4_Witness ==
    /\ Len(calls) >= 2
    /\ this_target = "leaf"
    /\ calls[1].target = "mid" /\ passes[calls[1].pass].phase = Bubbling
    /\ calls[2].target = "root" /\ passes[calls[2].pass].phase = Bubbling

(***************************************************************************)
(* C5.  The listeners called in one pass (one target, one phase) run in    *)
(* descending order of the priority they were registered at, and those of  *)
(* equal priority in the order they were registered, priorities and order  *)
(* being those of the moment the pass began.                               *)
(***************************************************************************)
C5_PriorityOrder ==
    \A p \in 1..Len(passes) :
        \A i \in CallsOf(p), j \in CallsOf(p) :
            i < j =>
                LET c == passes[p].phase = Capturing
                    hi == calls[i].handler
                    hj == calls[j].handler
                IN  /\ IsRegistered(passes[p].list, hi, c)
                    /\ IsRegistered(passes[p].list, hj, c)
                    /\ \/ PriorityOf(passes[p].list, hi, c) > PriorityOf(passes[p].list, hj, c)
                       \/ /\ PriorityOf(passes[p].list, hi, c)
                                = PriorityOf(passes[p].list, hj, c)
                          /\ OrderOf(passes[p].order, hi, c) < OrderOf(passes[p].order, hj, c)

\* A listener at priority 5 ran before one at priority 0 that was registered
\* before it.
C5_Witness ==
    \E p \in 1..Len(passes) :
        \E i \in CallsOf(p), j \in CallsOf(p) :
            LET c == passes[p].phase = Capturing IN
            /\ i < j
            /\ PriorityOf(passes[p].list, calls[i].handler, c) = 5
            /\ PriorityOf(passes[p].list, calls[j].handler, c) = 0
            /\ OrderOf(passes[p].order, calls[i].handler, c)
                    > OrderOf(passes[p].order, calls[j].handler, c)

(***************************************************************************)
(* C6.  When a listener has called stop_propagation and none has called    *)
(* stop_immediate_propagation, no listener is called in any later pass     *)
(* (no later pass is made at all), and once the pass in which it was       *)
(* called has returned, every listener registered for that pass when it    *)
(* began has been called.                                                  *)
(***************************************************************************)
C6_StopPropagation ==
    stop_calls # 0 /\ imm_calls = 0 =>
        LET p == calls[stop_calls].pass IN
        /\ Len(passes) = p
        /\ \A i \in 1..Len(calls) : calls[i].pass <= p
        /\ PassFinished(p) =>
            \A h \in Handlers :
                IsRegistered(passes[p].list, h, passes[p].phase = Capturing) =>
                    CallsOfHandler(p, h) # {}

\* A dispatch returned in which a listener stopped propagation and a listener
\* of the same target ran after it.
C6_Witness ==
    /\ Returned
    /\ stop_calls # 0
    /\ imm_calls = 0
    /\ Len(calls) > stop_calls
    /\ calls[Len(calls)].pass = calls[stop_calls].pass

(***************************************************************************)
(* C7.  Once a listener has called stop_immediate_propagation, no further  *)
(* listener is called for the rest of the dispatch_event call, on the same *)
(* target or on a later one.                                               *)
(***************************************************************************)
C7_StopImmediate ==
    imm_calls # 0 =>
        /\ Len(calls) = imm_calls
        /\ Len(passes) = calls[imm_calls].pass

\* A dispatch returned after a listener stopped it immediately, with a handler
\* of the same pass left uncalled.
C7_Witness ==
    /\ Returned
    /\ imm_calls # 0
    /\ hidx <= Len(handlers)

C9_AtMostOnce ==
    /\ \A obj \in Objects, ev \in EventTypes, h \in Handlers, c \in BOOLEAN :
            Registrations(dispatch_list[obj][ev], h, c) <= 1
    /\ last_call.op = "add" =>
            Registrations(dispatch_list[last_call.obj][last_call.ev],
                          last_call.handler, last_call.use_capture) = 1

\* The last call registered, at another priority, a pair that was registered.
C9_Witness ==
    /\ last_call.op = "add"
    /\ IsRegistered(last_call.before[last_call.ev], last_call.handler, last_call.use_capture)
    /\ PriorityOf(last_call.before[last_call.ev], last_call.handler, last_call.use_capture)
            # last_call.priority

(***************************************************************************)
(* C10.  dispatch_event returns true unless the event is cancelled, which  *)
(* it is iff it was cancelled when dispatch_event was called or a listener *)
(* called cancel() and the event is cancelable; cancel() on an event that  *)
(* is not cancelable has no effect, so the dispatch of such an event, not  *)
(* cancelled before, returns true.                                         *)
(***************************************************************************)
C10_ReturnValue ==
    Returned =>
        /\ result = Ok(~(entry.cancelled \/ (cancel_called /\ entry.cancelable)))
        /\ ~entry.cancelable /\ ~entry.cancelled => result = Ok(TRUE)

\* A listener called cancel() on an event that is not cancelable, and
\* dispatch_event returned true.
C10_Witness ==
    /\ Returned
    /\ cancel_called
    /\ ~entry.cancelable
    /\ result = Ok(TRUE)

MaxArgs == 2
MaxParams == 2

\* Option::None
None == "None"
\* Value::Undefined and Value::Null
Undefined == "Undefined"
Null == "Null"

\* The bits of FunctionFlags that Executable::exec reads.
FunctionFlags ==
    {"PRELOAD_THIS", "PRELOAD_ARGUMENTS", "SUPPRESS_ARGUMENTS", "PRELOAD_SUPER",
     "SUPPRESS_SUPER", "PRELOAD_ROOT", "PRELOAD_PARENT", "PRELOAD_GLOBAL"}

\* The values `this` takes: not an object, a script object, a display object.
ThisValues == {Undefined, "this_object", "this_clip"}
\* `match this { Value::Object(obj) => Some(obj), _ => None }`
this_obj(c) == IF c.this \in {"this_object", "this_clip"} THEN c.this ELSE None
\* `this_obj.and_then(|this| this.as_display_object())`
as_display_object(obj) == IF obj = "this_clip" THEN "this_clip" ELSE None

\* The positional arguments of a call with n arguments.
ArgValues == <<"arg1", "arg2", "arg3", "arg4">>
Args(n) == SubSeq(ArgValues, 1, n)

\* struct Param: register is 0 for None; otherwise the NonZeroU8 register.
Params == {[register |-> 0, name |-> "x"], [register |-> 2, name |-> "y"]}
ParamLists == UNION {[1..n -> Params] : n \in 0..MaxParams}

\* What exec has done when it is entered: nothing.
exec_begin ==
    [ops |-> <<>>, arguments |-> None, super_object |-> None, effective_version |-> 0,
     base_clip |-> None, activation |-> None, preload_r |-> 0, writes |-> <<>>,
     locals |-> <<>>, result |-> "none"]

\* A step of exec is skipped once exec has returned (`?` or the final Ok).
Returned1(f) == f.result # "none"

\* exec: `let child_scope = GcCell::allocate(.., Scope::new_local_scope(..))`
new_child_scope(f, c) == [f EXCEPT !.ops = Append(@, "child_scope")]

\* exec: the `arguments` array with `callee` and `caller` defined on it
build_arguments(f, c) ==
    [f EXCEPT
        !.ops = Append(@, "arguments"),
        !.arguments =
            [elements |-> IF "SUPPRESS_ARGUMENTS" \in c.flags THEN <<>> ELSE c.args,
             callee |-> c.callee,
             caller |-> IF c.caller = None THEN Null ELSE c.caller]]

make_super_object_unsuppressed(f, c) ==
    [f EXCEPT
        !.ops = Append(@, "super_object"),
        !.super_object = IF this_obj(c) # None THEN "super_object" ELSE None]

\* exec: `let super_object = this_obj.and_then(..)`
make_super_object(f, c) ==
    [f EXCEPT
        !.ops = Append(@, "super_object"),
        !.super_object =
            IF this_obj(c) # None /\ "SUPPRESS_SUPER" \notin c.flags
            THEN "super_object" ELSE None]

\* The version of a display object `this`.
ThisClipVersion(c) == c.this_clip_version

effective_version_chain(c) ==
    IF ~c.base_clip_removed /\ c.activation_version > 5
    THEN c.base_clip_version
    ELSE c.af_version

\* exec: `let effective_version = if activation.swf_version() > 5 {..} else {..}`
effective_version(c) ==
    IF c.activation_version > 5
    THEN IF ~c.base_clip_removed THEN c.base_clip_version ELSE c.af_version
    ELSE IF as_display_object(this_obj(c)) # None
         THEN ThisClipVersion(c)
         ELSE c.player_version

\* exec: `let base_clip = if effective_version > 5 && !af.base_clip.removed() {..}`
choose_base_clip(f, c) ==
    [f EXCEPT
        !.ops = Append(@, "effective_version"),
        !.effective_version = effective_version(c),
        !.base_clip =
            IF effective_version(c) > 5 /\ ~c.base_clip_removed
            THEN "af_base_clip"
            ELSE IF as_display_object(this_obj(c)) # None
                 THEN as_display_object(this_obj(c))
                 ELSE "activation_base_clip"]

\* activation.id.function(name, reason, max_recursion_depth): an error when the
\* call would exceed the maximum recursion depth.
id_function(c) == IF c.recursion_exceeded THEN "Err(FunctionRecursionLimit)" ELSE "Ok"

from_action_unchecked(f, c) ==
    [f EXCEPT
        !.ops = Append(@, "from_action"),
        !.activation = [swf_version |-> f.effective_version, base_clip |-> f.base_clip,
                        this |-> c.this, callee |-> c.callee, arguments |-> f.arguments]]

\* exec: `let mut frame = Activation::from_action(.., activation.id.function(..)?, ..)`
from_action(f, c) ==
    IF id_function(c) # "Ok"
    THEN [f EXCEPT !.result = id_function(c)]
    ELSE [f EXCEPT
            !.ops = Append(@, "from_action"),
            !.activation = [swf_version |-> f.effective_version, base_clip |-> f.base_clip,
                            this |-> c.this, callee |-> c.callee,
                            arguments |-> f.arguments]]

\* frame.set_local_register(register, value), as exec calls it; `what` names the
\* binding the value is.
set_local_register(f, register, value, what) ==
    [f EXCEPT !.writes = Append(@, [register |-> register, value |-> value, what |-> what])]

\* frame.force_define_local(name, value), as exec calls it
force_define_local(f, name, value, what) ==
    [f EXCEPT !.locals = Append(@, [name |-> name, value |-> value, what |-> what])]

\* exec: `frame.allocate_local_registers(..); let mut preload_r = 1;`
allocate_local_registers(f, c) ==
    IF Returned1(f) THEN f
    ELSE [f EXCEPT !.ops = Append(@, "allocate_local_registers"), !.preload_r = 1]

\* exec: `if af.flags.contains(FunctionFlags::PRELOAD_THIS) {..}`
preload_this(f, c) ==
    IF Returned1(f) \/ "PRELOAD_THIS" \notin c.flags THEN f
    ELSE [set_local_register(f, f.preload_r, c.this, "this")
            EXCEPT !.preload_r = @ + 1]

preload_arguments_same_register(f, c) ==
    IF Returned1(f) \/ "PRELOAD_ARGUMENTS" \notin c.flags THEN f
    ELSE set_local_register(f, f.preload_r, "arguments_object", "arguments")

\* exec: `if af.flags.contains(FunctionFlags::PRELOAD_ARGUMENTS) {..}`
preload_arguments(f, c) ==
    IF Returned1(f) \/ "PRELOAD_ARGUMENTS" \notin c.flags THEN f
    ELSE [set_local_register(f, f.preload_r, "arguments_object", "arguments")
            EXCEPT !.preload_r = @ + 1]

preload_super_reserving(f, c) ==
    IF Returned1(f) THEN f
    ELSE IF f.super_object = None
         THEN IF "PRELOAD_SUPER" \in c.flags THEN [f EXCEPT !.preload_r = @ + 1] ELSE f
    ELSE IF "PRELOAD_SUPER" \in c.flags
         THEN [set_local_register(f, f.preload_r, f.super_object, "super")
                EXCEPT !.preload_r = @ + 1]
         ELSE force_define_local(f, "super", f.super_object, "super")

\* exec: `if let Some(super_object) = super_object {..}`
preload_super(f, c) ==
    IF Returned1(f) \/ f.super_object = None THEN f
    ELSE IF "PRELOAD_SUPER" \in c.flags
         THEN [set_local_register(f, f.preload_r, f.super_object, "super")
                EXCEPT !.preload_r = @ + 1]
         ELSE force_define_local(f, "super", f.super_object, "super")

\* exec: `if af.flags.contains(FunctionFlags::PRELOAD_ROOT) {..}`; avm1_root(..)?
\* can fail.
preload_root(f, c) ==
    IF Returned1(f) \/ "PRELOAD_ROOT" \notin c.flags THEN f
    ELSE IF ~c.base_clip_has_root THEN [f EXCEPT !.result = "Err(avm1_root)"]
         ELSE [set_local_register(f, f.preload_r, "root_clip", "root")
                EXCEPT !.preload_r = @ + 1]

preload_parent_leaving_gap(f, c) ==
    IF Returned1(f) \/ "PRELOAD_PARENT" \notin c.flags THEN f
    ELSE IF ~c.base_clip_has_parent THEN [f EXCEPT !.preload_r = @ + 1]
         ELSE [set_local_register(f, f.preload_r, "parent_clip", "parent")
                EXCEPT !.preload_r = @ + 1]

\* exec: `if af.flags.contains(FunctionFlags::PRELOAD_PARENT) {..}`
preload_parent(f, c) ==
    IF Returned1(f) \/ "PRELOAD_PARENT" \notin c.flags THEN f
    ELSE IF ~c.base_clip_has_parent THEN f
         ELSE [set_local_register(f, f.preload_r, "parent_clip", "parent")
                EXCEPT !.preload_r = @ + 1]

\* exec: `if af.flags.contains(FunctionFlags::PRELOAD_GLOBAL) {..}`
preload_global(f, c) ==
    IF Returned1(f) \/ "PRELOAD_GLOBAL" \notin c.flags THEN f
    ELSE set_local_register(f, f.preload_r, "global_object", "global")

\* exec: `args.iter().cloned().chain(std::iter::repeat(Value::Undefined))`
args_iter(c, i) == IF i <= Len(c.args) THEN c.args[i] ELSE Undefined

\* exec: the body of `for (param, value) in af.params.iter().zip(args_iter)`
bind_param(f, param, value) ==
    IF param.register # 0
    THEN set_local_register(f, param.register, value, "param")
    ELSE force_define_local(f, param.name, value, "param")

RECURSIVE bind_params_from(_, _, _, _)
bind_params_from(f, c, i, n) ==
    IF i > n THEN f
    ELSE bind_params_from(bind_param(f, c.params[i], args_iter(c, i)), c, i + 1, n)

bind_params_supplied_only(f, c) ==
    IF Returned1(f) THEN f
    ELSE bind_params_from(f, c, 1,
            IF Len(c.args) < Len(c.params) THEN Len(c.args) ELSE Len(c.params))

\* exec: `for (param, value) in af.params.iter().zip(args_iter) {..}`
bind_params(f, c) ==
    IF Returned1(f) THEN f
    ELSE bind_params_from(f, c, 1, Len(c.params))

\* exec: `Ok(frame.run_actions(af.data.clone())?.value())`; what the body does
\* is an input of the call.
run_actions(f, c) ==
    IF Returned1(f) THEN f
    ELSE [f EXCEPT !.ops = Append(@, "run_actions"), !.result = c.body_result]

exec_action_params_first(c) ==
    LET scope == new_child_scope(exec_begin, c)
        arguments == build_arguments(scope, c)
        super == make_super_object(arguments, c)
        version == choose_base_clip(super, c)
        frame == from_action(version, c)
        registers == allocate_local_registers(frame, c)
        with_params == bind_params(registers, c)
        with_this == preload_this(with_params, c)
        with_arguments == preload_arguments(with_this, c)
        with_super == preload_super(with_arguments, c)
        with_root == preload_root(with_super, c)
        with_parent == preload_parent(with_root, c)
        with_global == preload_global(with_parent, c)
    IN  run_actions(with_global, c)

\* Executable::exec, the Executable::Action arm
exec_action(c) ==
    LET scope == new_child_scope(exec_begin, c)
        arguments == build_arguments(scope, c)
        super == make_super_object(arguments, c)
        version == choose_base_clip(super, c)
        frame == from_action(version, c)
        registers == allocate_local_registers(frame, c)
        with_this == preload_this(registers, c)
        with_arguments == preload_arguments(with_this, c)
        with_super == preload_super(with_arguments, c)
        with_root == preload_root(with_super, c)
        with_parent == preload_parent(with_root, c)
        with_global == preload_global(with_parent, c)
    IN  run_actions(bind_params(with_global, c), c)

\* Executable::exec: a native function is called at once, an Avm1Function goes
\* through the call protocol.
exec(c) ==
    IF c.executable = "Native"
    THEN [exec_begin EXCEPT !.ops = <<"native">>, !.result = c.body_result]
    ELSE exec_action(c)

\* The inputs of an exec call whose versions are fixed.
ExecInput(flags, params, this, args, has_parent, has_root, exceeded) ==
    [executable |-> "Action", flags |-> flags, params |-> params, this |-> this,
     depth |-> 0, args |-> args, callee |-> "callee_function", caller |-> None,
     base_clip_removed |-> FALSE, base_clip_version |-> 6,
     base_clip_has_parent |-> has_parent, base_clip_has_root |-> has_root,
     af_version |-> 6, activation_version |-> 6, this_clip_version |-> 6,
     player_version |-> 6, recursion_exceeded |-> exceeded, body_result |-> "body_value"]

\* The inputs of an exec call that differ in the calling context: the versions
\* exec chooses among, the calling function, and whether the arguments object
\* is suppressed or preloaded.
ContextInputs ==
    [executable : {"Action"},
     flags : {{}, {"SUPPRESS_ARGUMENTS"}, {"SUPPRESS_ARGUMENTS", "PRELOAD_ARGUMENTS"}},
     params : {<<>>}, this : ThisValues, depth : {0},
     args : {Args(n) : n \in 0..MaxArgs},
     callee : {"callee_function"}, caller : {None, "caller_function"},
     base_clip_removed : BOOLEAN, base_clip_version : {5, 7},
     base_clip_has_parent : {TRUE}, base_clip_has_root : {TRUE},
     af_version : {4, 8}, activation_version : 4..7, this_clip_version : {9},
     player_version : {6, 10}, recursion_exceeded : {FALSE}, body_result : {"body_value"}]

\* Executable::exec is called.
Exec(c) ==
    /\ exec_call.op = "none"
    /\ exec_call' = [op |-> "exec", in |-> c, out |-> exec(c)]
    /\ UNCHANGED <<construct_call, not_avm1_vars>>

\* The caller of exec has its result.
ExecReturn ==
    /\ exec_call.op = "exec"
    /\ exec_call' = NoCall
    /\ UNCHANGED <<construct_call, not_avm1_vars>>

\* Every combination of flags, the three kinds of `this`, with and without a
\* parent clip, a root, room in the recursion limit; up to MaxArgs arguments and
\* MaxParams parameters.
ExecNext ==
    \/ /\ exec_call.op = "none"
       /\ \E flags \in SUBSET FunctionFlags, params \in ParamLists, this \in ThisValues,
             n \in 0..MaxArgs, has_parent \in BOOLEAN, has_root \in BOOLEAN,
             exceeded \in BOOLEAN :
                Exec(ExecInput(flags, params, this, Args(n), has_parent, has_root,
                               exceeded))
    \/ ExecReturn

\* Interpreted calls over all flags and parameter lists.
ExecSpec == Init /\ [][ExecNext]_vars

ContextNext ==
    \/ /\ exec_call.op = "none"
       /\ \E c \in ContextInputs : Exec(c)
    \/ ExecReturn

\* Interpreted calls over the calling contexts.
ContextSpec == Init /\ [][ContextNext]_vars

\* An interpreted call has been made / has got as far as its register file.
Called == exec_call.op = "exec"
Allocated == Called /\ "allocate_local_registers" \in {exec_call.out.ops[i] :
                                                        i \in 1..Len(exec_call.out.ops)}

\* The steps an exec call has taken, as a set.
OpsOf(f) == {f.ops[i] : i \in 1..Len(f.ops)}
\* The call ran the function's body.
Completed == Called /\ "run_actions" \in OpsOf(exec_call.out)

\* The set_local_register calls that preload, in the order exec made them.
Preloads(f) == SelectSeq(f.writes, LAMBDA w : w.what # "param")
\* The order of the preload blocks in exec, and the flag each one tests.
PreloadOrder == <<"this", "arguments", "super", "root", "parent", "global">>
Rank(what) == CHOOSE i \in 1..Len(PreloadOrder) : PreloadOrder[i] = what
FlagOf(what) ==
    CASE what = "this" -> "PRELOAD_THIS"
      [] what = "arguments" -> "PRELOAD_ARGUMENTS"
      [] what = "super" -> "PRELOAD_SUPER"
      [] what = "root" -> "PRELOAD_ROOT"
      [] what = "parent" -> "PRELOAD_PARENT"
      [] what = "global" -> "PRELOAD_GLOBAL"
\* `this` is an object (Value::Object).
ThisIsObject(c) == c.this \in {"this_object", "this_clip"}
\* The value a preload block would load exists.
Available(c, what) ==
    CASE what = "super" -> ThisIsObject(c) /\ "SUPPRESS_SUPER" \notin c.flags
      [] what = "parent" -> c.base_clip_has_parent
      [] OTHER -> TRUE
\* The register `what` was preloaded into, or 0.
RegisterOf(f, what) ==
    IF \E i \in 1..Len(f.writes) : f.writes[i].what = what
    THEN f.writes[CHOOSE i \in 1..Len(f.writes) : f.writes[i].what = what].register
    ELSE 0

(***************************************************************************)
(* C12.  In every interpreted call, for every combination of flags, the    *)
(* i-th preload goes to register i: the preloaded values occupy registers  *)
(* 1, 2, .. without a gap and without sharing; they are loaded in the      *)
(* order this, arguments, super, root, parent, global; each has its        *)
(* preload flag set; and a call that reaches its body has preloaded        *)
(* exactly the flagged values that exist.                                  *)
(***************************************************************************)
C12_PreloadRegisters ==
    Called =>
        LET c == exec_call.in
            P == Preloads(exec_call.out)
        IN  /\ \A i \in 1..Len(P) : P[i].register = i
            /\ \A i \in 1..Len(P), j \in 1..Len(P) :
                    i < j => Rank(P[i].what) < Rank(P[j].what)
            /\ \A i \in 1..Len(P) : FlagOf(P[i].what) \in c.flags
            /\ Completed =>
                    \A k \in 1..Len(PreloadOrder) :
                        LET what == PreloadOrder[k] IN
                        (\E i \in 1..Len(P) : P[i].what = what)
                            <=> (FlagOf(what) \in c.flags /\ Available(c, what))

\* A call with all six values preloaded, global in register 6.
C12_Witness ==
    /\ Completed
    /\ Len(Preloads(exec_call.out)) = 6
    /\ RegisterOf(exec_call.out, "global") = 6

\* The register parent takes when there is a parent: one more than the number
\* of values preloaded before it.
ParentRegister(c) ==
    1 + Cardinality({what \in {"this", "arguments", "super", "root"} :
                        FlagOf(what) \in c.flags /\ Available(c, what)})

(***************************************************************************)
(* C13.  When PRELOAD_PARENT is set and the function's base clip has no    *)
(* parent, no register is assigned for parent, and global, if flagged,     *)
(* takes the register parent would have occupied (the one parent occupies  *)
(* when there is a parent, global then taking the next).                   *)
(***************************************************************************)
C13_ParentSkipped ==
    Completed /\ "PRELOAD_PARENT" \in exec_call.in.flags =>
        LET c == exec_call.in
            f == exec_call.out
        IN  IF c.base_clip_has_parent
            THEN /\ RegisterOf(f, "parent") = ParentRegister(c)
                 /\ "PRELOAD_GLOBAL" \in c.flags =>
                        RegisterOf(f, "global") = ParentRegister(c) + 1
            ELSE /\ RegisterOf(f, "parent") = 0
                 /\ \A i \in 1..Len(f.writes) : f.writes[i].value # "parent_clip"
                 /\ \A i \in 1..Len(f.locals) : f.locals[i].value # "parent_clip"
                 /\ "PRELOAD_GLOBAL" \in c.flags =>
                        RegisterOf(f, "global") = ParentRegister(c)

\* Flags {PRELOAD_THIS, PRELOAD_PARENT, PRELOAD_GLOBAL} on a clip without a
\* parent: global is in register 2.
C13_Witness ==
    /\ Completed
    /\ exec_call.in.flags = {"PRELOAD_THIS", "PRELOAD_PARENT", "PRELOAD_GLOBAL"}
    /\ ~exec_call.in.base_clip_has_parent
    /\ RegisterOf(exec_call.out, "this") = 1
    /\ RegisterOf(exec_call.out, "global") = 2

\* The parameter bindings exec made, in registers and as named locals.
ParamWrites(f) == SelectSeq(f.writes, LAMBDA w : w.what = "param")
ParamLocals(f) == SelectSeq(f.locals, LAMBDA l : l.what = "param")
\* Among the first i declared parameters, those that go to a register / to a
\* named local.
RegisterParams(c, i) == {k \in 1..i : c.params[k].register # 0}
NamedParams(c, i) == {k \in 1..i : c.params[k].register = 0}

(***************************************************************************)
(* C14.  In an interpreted call every declared parameter is bound, in      *)
(* declaration order, to its register or as its named local: to the        *)
(* argument at its position if one was supplied, to undefined otherwise.   *)
(* No declared parameter is left unbound, also when fewer arguments than   *)
(* parameters are supplied, and arguments beyond the declared parameters   *)
(* bind nothing.                                                           *)
(***************************************************************************)
C14_ParametersBound ==
    Completed =>
        LET c == exec_call.in
            W == ParamWrites(exec_call.out)
            L == ParamLocals(exec_call.out)
            n == Len(c.params)
        IN  /\ Len(W) = Cardinality(RegisterParams(c, n))
            /\ Len(L) = Cardinality(NamedParams(c, n))
            /\ \A i \in 1..n :
                    LET value == IF i <= Len(c.args) THEN c.args[i] ELSE "Undefined" IN
                    IF c.params[i].register # 0
                    THEN W[Cardinality(RegisterParams(c, i))]
                            = [register |-> c.params[i].register, value |-> value,
                               what |-> "param"]
                    ELSE L[Cardinality(NamedParams(c, i))]
                            = [name |-> c.params[i].name, value |-> value,
                               what |-> "param"]

\* A call without arguments of a function with a named and a register
\* parameter: both are bound to undefined.
C14_Witness ==
    /\ Completed
    /\ exec_call.in.args = <<>>
    /\ Len(exec_call.in.params) = 2
    /\ Len(ParamWrites(exec_call.out)) = 1
    /\ Len(ParamLocals(exec_call.out)) = 1
    /\ ParamWrites(exec_call.out)[1].value = "Undefined"
    /\ ParamLocals(exec_call.out)[1].value = "Undefined"

(***************************************************************************)
(* C15 as claimed.  A call that would exceed the maximum recursion depth   *)
(* fails with the recursion-limit error before the child scope node and    *)
(* the arguments object are built, without preloading a register, binding  *)
(* a parameter or running the body.                                        *)
(***************************************************************************)
C15_FailsBeforeStep2 ==
    Called /\ exec_call.in.recursion_exceeded =>
        /\ exec_call.out.result = "Err(FunctionRecursionLimit)"
        /\ "child_scope" \notin OpsOf(exec_call.out)
        /\ "arguments" \notin OpsOf(exec_call.out)
        /\ exec_call.out.writes = <<>>
        /\ exec_call.out.locals = <<>>
        /\ "run_actions" \notin OpsOf(exec_call.out)

(***************************************************************************)
(* C15 as amended.  A call that would exceed the maximum recursion depth   *)
(* fails with the recursion-limit error when its activation is created:    *)
(* after the child scope node, the arguments object, the super binding and *)
(* the effective version have been computed, and before the register file  *)
(* is allocated; no register is preloaded, no parameter bound and the body *)
(* is not run.  A call within the limit does not fail this way.            *)
(***************************************************************************)
C15_RecursionLimit ==
    Called =>
        IF exec_call.in.recursion_exceeded
        THEN /\ exec_call.out.result = "Err(FunctionRecursionLimit)"
             /\ exec_call.out.ops
                    = <<"child_scope", "arguments", "super_object", "effective_version">>
             /\ exec_call.out.activation = "None"
             /\ exec_call.out.writes = <<>>
             /\ exec_call.out.locals = <<>>
        ELSE /\ exec_call.out.result # "Err(FunctionRecursionLimit)"
             /\ "from_action" \in OpsOf(exec_call.out)

\* A call beyond the limit of a function that has flags and parameters: the
\* arguments object was built, nothing was preloaded or bound.
C15_Witness ==
    /\ Called
    /\ exec_call.in.recursion_exceeded
    /\ exec_call.in.flags = FunctionFlags \ {"SUPPRESS_ARGUMENTS", "SUPPRESS_SUPER"}
    /\ Len(exec_call.in.params) = 2
    /\ Len(exec_call.in.args) = 2
    /\ "arguments" \in OpsOf(exec_call.out)
    /\ exec_call.out.arguments.elements = exec_call.in.args
    /\ exec_call.out.writes = <<>>

\* Where exec put the super binding.
SuperInRegister(f) == \E i \in 1..Len(f.writes) : f.writes[i].what = "super"
SuperAsLocal(f) == \E i \in 1..Len(f.locals) : f.locals[i].name = "super"

(***************************************************************************)
(* C16.  In an interpreted call a super binding exists iff `this` is an    *)
(* object and SUPPRESS_SUPER is not set.  Once the registers are           *)
(* allocated, an existing binding is in a register iff PRELOAD_SUPER is    *)
(* set and is the named local "super" iff it is not set, never both; a     *)
(* binding that does not exist is in neither place.                        *)
(***************************************************************************)
C16_SuperBinding ==
    /\ Called /\ exec_call.in.executable = "Action" =>
            (exec_call.out.super_object # "None"
                <=> /\ ThisIsObject(exec_call.in)
                    /\ "SUPPRESS_SUPER" \notin exec_call.in.flags)
    /\ Allocated =>
            LET c == exec_call.in
                f == exec_call.out
                exists == f.super_object # "None"
            IN  /\ SuperInRegister(f) <=> exists /\ "PRELOAD_SUPER" \in c.flags
                /\ SuperAsLocal(f) <=> exists /\ "PRELOAD_SUPER" \notin c.flags
                /\ ~(SuperInRegister(f) /\ SuperAsLocal(f))
                /\ \A i \in 1..Len(f.writes) :
                        f.writes[i].what = "super" => f.writes[i].value = f.super_object
                /\ \A i \in 1..Len(f.locals) :
                        f.locals[i].name = "super" => f.locals[i].value = f.super_object

\* PRELOAD_SUPER and SUPPRESS_SUPER both set on a call with an object `this`:
\* no binding, nothing preloaded for it.
C16_Witness ==
    /\ Completed
    /\ ThisIsObject(exec_call.in)
    /\ {"PRELOAD_SUPER", "SUPPRESS_SUPER"} \subseteq exec_call.in.flags
    /\ ~SuperInRegister(exec_call.out)
    /\ ~SuperAsLocal(exec_call.out)

(***************************************************************************)
(* C17 as claimed.  The effective version of an interpreted call is the    *)
(* defining clip's version if that clip is not removed and the calling     *)
(* activation's version exceeds 5, and else the function's own recorded    *)
(* version (which every function has, so that the later fallbacks of the   *)
(* chain are never reached).                                               *)
(***************************************************************************)
C17_PriorityChain ==
    Called /\ exec_call.in.executable = "Action" =>
        LET c == exec_call.in IN
        exec_call.out.effective_version =
            IF ~c.base_clip_removed /\ c.activation_version > 5
            THEN c.base_clip_version
            ELSE c.af_version

(***************************************************************************)
(* C17 as amended.  When the calling activation's version exceeds 5 the    *)
(* effective version is the defining clip's version if that clip is not    *)
(* removed, else the function's own recorded version.  When it does not    *)
(* exceed 5 the effective version is the display-object version of `this`  *)
(* if `this` is a display object, else the player default.                 *)
(***************************************************************************)
C17_EffectiveVersion ==
    Called /\ exec_call.in.executable = "Action" =>
        LET c == exec_call.in IN
        exec_call.out.effective_version =
            CASE c.activation_version > 5 /\ ~c.base_clip_removed -> c.base_clip_version
              [] c.activation_version > 5 /\ c.base_clip_removed -> c.af_version
              [] c.activation_version <= 5 /\ c.this = "this_clip" -> c.this_clip_version
              [] OTHER -> c.player_version

\* A version 5 activation calls a function of a live clip on a display object:
\* the version is that of `this`, neither the clip's nor the function's.
C17_Witness ==
    /\ Called
    /\ exec_call.in.activation_version = 5
    /\ ~exec_call.in.base_clip_removed
    /\ exec_call.in.this = "this_clip"
    /\ exec_call.out.effective_version = exec_call.in.this_clip_version
    /\ exec_call.out.effective_version # exec_call.in.af_version
    /\ exec_call.out.effective_version # exec_call.in.base_clip_version

(***************************************************************************)
(* C18.  An interpreted call builds an arguments object holding the        *)
(* positional arguments in order, callee (the called function) and caller  *)
(* (the calling activation's callee, or null), unless the function has     *)
(* SUPPRESS_ARGUMENTS set: then no arguments object is built for the       *)
(* activation or bound into it.                                            *)
(***************************************************************************)
C18_ArgumentsObject ==
    Called /\ exec_call.in.executable = "Action" =>
        LET c == exec_call.in
            f == exec_call.out
        IN  IF "SUPPRESS_ARGUMENTS" \in c.flags
            THEN /\ "arguments" \notin OpsOf(f)
                 /\ \A i \in 1..Len(f.writes) : f.writes[i].what # "arguments"
            ELSE /\ "arguments" \in OpsOf(f)
                 /\ f.arguments =
                        [elements |-> c.args, callee |-> c.callee,
                         caller |-> IF c.caller = "None" THEN "Null" ELSE c.caller]

(***************************************************************************)
(* FunctionObject::construct                                               *)
(***************************************************************************)
\* What a constructor or function body can hand back: the receiver, another
\* object, undefined, or a scripting error.
BodyResults == {"this_object", "other_object", Undefined, "Err(script)"}
\* The Err results of exec.
IsErr(outcome) == outcome \in {"Err(FunctionRecursionLimit)", "Err(avm1_root)", "Err(script)"}

\* FunctionObject::create_bare_object: a new object with the given prototype
\* and neither function nor constructor.
create_bare_object(prototype) ==
    [object |-> "this_object", prototype |-> prototype, function |-> None,
     constructor |-> None, defined |-> {}]

\* TObject::define_value
define_value(this, name, value) == [this EXCEPT !.defined = @ \cup {[name |-> name, value |-> value]}]

\* construct: `exec.exec(ExecutionName::Static("[ctor]"), activation, this.into(), 1,
\* args, ExecutionReason::FunctionCall, (*self).into())`
ctor_exec_input(c, this, executable, body_result) ==
    [executable |-> executable, flags |-> {}, params |-> <<>>, this |-> this.object,
     depth |-> 1, args |-> c.args, callee |-> "self", caller |-> None,
     base_clip_removed |-> FALSE, base_clip_version |-> c.swf_version,
     base_clip_has_parent |-> TRUE, base_clip_has_root |-> TRUE,
     af_version |-> c.swf_version, activation_version |-> c.swf_version,
     this_clip_version |-> c.swf_version, player_version |-> c.swf_version,
     recursion_exceeded |-> c.recursion_exceeded, body_result |-> body_result]

\* construct up to the choice of the body: the instance with `__constructor__`
\* and, below version 7, `constructor` defined on it.
construct_this(c) ==
    LET this == define_value(create_bare_object(c.prototype), "__constructor__", "self")
    IN  IF c.swf_version < 7 THEN define_value(this, "constructor", "self") ELSE this

construct_returning_this(c) ==
    LET this == construct_this(c) IN
    IF c.constructor # None
    THEN LET in == ctor_exec_input(c, this, c.constructor, c.constructor_result)
             r == exec(in)
         IN  [this |-> this, execs |-> <<[body |-> "constructor", in |-> in]>>,
              result |-> IF IsErr(r.result) THEN r.result ELSE this.object]
    ELSE IF c.function # None
    THEN LET in == ctor_exec_input(c, this, c.function, c.function_result)
             r == exec(in)
         IN  [this |-> this, execs |-> <<[body |-> "function", in |-> in]>>,
              result |-> IF IsErr(r.result) THEN r.result ELSE this.object]
    ELSE [this |-> this, execs |-> <<>>, result |-> Undefined]

\* FunctionObject::construct
construct(c) ==
    LET this == construct_this(c) IN
    IF c.constructor # None
    THEN LET in == ctor_exec_input(c, this, c.constructor, c.constructor_result)
             r == exec(in)
         IN  [this |-> this, execs |-> <<[body |-> "constructor", in |-> in]>>,
              result |-> r.result]
    ELSE IF c.function # None
    THEN LET in == ctor_exec_input(c, this, c.function, c.function_result)
             r == exec(in)
         IN  [this |-> this, execs |-> <<[body |-> "function", in |-> in]>>,
              result |-> IF IsErr(r.result) THEN r.result ELSE this.object]
    ELSE [this |-> this, execs |-> <<>>, result |-> Undefined]

\* The executables a FunctionObject can hold in `function` and `constructor`.
Executables == {None, "Native", "Action"}
ConstructInput(prototype, constructor, function, bodies, swf_version, exceeded, args) ==
    [prototype |-> prototype, constructor |-> constructor, function |-> function,
     constructor_result |-> bodies[1], function_result |-> bodies[2],
     swf_version |-> swf_version, recursion_exceeded |-> exceeded, args |-> args]

\* FunctionObject::construct is called.
Construct(c) ==
    /\ construct_call' = [op |-> "construct", in |-> c, out |-> construct(c)]
    /\ UNCHANGED <<exec_call, not_avm1_vars>>

\* The caller has taken the result of construct.
ConstructReturn ==
    /\ construct_call.op = "construct"
    /\ construct_call' = NoCall
    /\ UNCHANGED <<exec_call, not_avm1_vars>>

ConstructNext ==
    \/ /\ construct_call.op = "none"
       /\ \E prototype \in {"prototype_a", "prototype_b"}, constructor \in Executables,
             function \in Executables, constructor_result \in BodyResults,
             function_result \in BodyResults, swf_version \in {6, 7},
             exceeded \in BOOLEAN, n \in 0..MaxArgs :
                Construct(ConstructInput(prototype, constructor, function,
                                         <<constructor_result, function_result>>,
                                         swf_version, exceeded, Args(n)))
    \/ ConstructReturn

\* Constructions over all combinations of constructor and function bodies.
ConstructSpec == Init /\ [][ConstructNext]_vars

Constructed == construct_call.op = "construct"
\* The instance construct allocated has the function's prototype and names
\* the function as its __constructor__.
BareInstance ==
    /\ construct_call.out.this.prototype = construct_call.in.prototype
    /\ construct_call.out.this.function = "None"
    /\ construct_call.out.this.constructor = "None"
    /\ [name |-> "__constructor__", value |-> "self"] \in construct_call.out.this.defined
\* construct invoked exactly the given body, once, with the new instance as
\* receiver, at depth 1 and with the arguments of construct.
InvokedOnInstance(body, executable) ==
    /\ Len(construct_call.out.execs) = 1
    /\ construct_call.out.execs[1].body = body
    /\ construct_call.out.execs[1].in.executable = executable
    /\ construct_call.out.execs[1].in.this = construct_call.out.this.object
    /\ construct_call.out.execs[1].in.depth = 1
    /\ construct_call.out.execs[1].in.args = construct_call.in.args
\* What the body invoked by construct handed back.
BodyOutcome == exec(construct_call.out.execs[1].in).result

MaxNs == 2

\* enum Namespace: a variant and, for every variant but Any, its URI.
NamespaceKinds == {"Namespace", "Package", "Private"}
Uris == {"", "flash.events"}
Any == [kind |-> "Any", uri |-> ""]
Namespaces == {[kind |-> k, uri |-> u] : k \in NamespaceKinds, u \in Uris} \cup {Any}

Namespace_eq_uri_only(a, b) == a.uri = b.uri

\* #[derive(PartialEq)] on Namespace: the same variant holding an equal URI.
Namespace_eq(a, b) ==
    /\ a.kind = b.kind
    /\ a.kind = "Any" \/ a.uri = b.uri

\* struct QName and its accessors
QNames == {[ns |-> n, name |-> l] : n \in Namespaces, l \in {"a", "b"}}
namespace(name) == name.ns
local_name(name) == name.name

\* struct Multiname (type parameters left out: contains_name does not read them)
NamespaceSets == UNION {[1..n -> Namespaces] : n \in 0..MaxNs}
Multinames == {[ns |-> n, name |-> l] : n \in NamespaceSets, l \in {None, "a", "b"}}

\* contains_name: `self.ns.iter().any(|ns| *ns == Namespace::Any || *ns == name.namespace())`
RECURSIVE ns_any(_, _, _)
ns_any(ns, i, name) ==
    IF i > Len(ns) THEN FALSE
    ELSE IF Namespace_eq(ns[i], Any) \/ Namespace_eq(ns[i], namespace(name)) THEN TRUE
    ELSE ns_any(ns, i + 1, name)

\* Multiname::contains_name
contains_name(self, name) ==
    LET ns_match == ns_any(self.ns, 1, name)
        name_match == IF self.name = None THEN TRUE ELSE self.name = local_name(name)
    IN  ns_match /\ name_match

\* Multiname::contains_name is called.
ContainsName(m, q) ==
    /\ name_query' = [op |-> "contains_name", self |-> m, name |-> q,
                      out |-> contains_name(m, q)]
    /\ UNCHANGED not_names_vars

\* The caller has taken the answer.
ContainsNameReturn ==
    /\ name_query.op = "contains_name"
    /\ name_query' = NoCall
    /\ UNCHANGED not_names_vars

NamesNext ==
    \/ /\ name_query.op = "none"
       /\ \E m \in Multinames, q \in QNames : ContainsName(m, q)
    \/ ContainsNameReturn

\* Name queries over all multinames and qualified names.
NamesSpec == Init /\ [][NamesNext]_vars

Queried == name_query.op = "contains_name"

(***************************************************************************)
(* C20.  For every Multiname m and QName q, m.contains_name(q) is true iff *)
(* m's namespace set contains Namespace::Any or contains exactly q's       *)
(* namespace (kind and URI both equal), and m's local name is absent or    *)
(* equals q's local name.                                                  *)
(***************************************************************************)
C20_ContainsName ==
    Queried =>
        LET m == name_query.self
            q == name_query.name
            set == {m.ns[i] : i \in 1..Len(m.ns)}
        IN  name_query.out <=>
                /\ \/ \E n \in set : n.kind = "Any"
                   \/ \E n \in set : n.kind = q.ns.kind /\ n.uri = q.ns.uri
                /\ m.name = "None" \/ m.name = q.name

\* A multiname without a local name whose first namespace has the URI of q's
\* namespace but another kind, and whose second namespace is q's: a match.
\* And the same URI under another kind alone would not be one.
C20_Witness ==
    /\ Queried
    /\ name_query.out
    /\ name_query.self.name = "None"
    /\ Len(name_query.self.ns) = 2
    /\ name_query.self.ns[1].kind = "Private"
    /\ name_query.self.ns[1].uri = name_query.name.ns.uri
    /\ name_query.name.ns.kind = "Package"
    /\ name_query.self.ns[2] = name_query.name.ns
    /\ ~contains_name([name_query.self EXCEPT !.ns = <<name_query.self.ns[1]>>],
                      name_query.name)

(***************************************************************************)
(* avm1::globals::display_object                                           *)
(***************************************************************************)
AVM_DEPTH_BIAS == 16384
AVM_MAX_REMOVE_DEPTH == 2130706416
\* i32::MAX and i32::MIN
I32Max == 2147483647
I32Min == -I32Max - 1
\* i32::wrapping_sub: a - b modulo 2^32, computed without leaving i32
wrapping_sub(a, b) ==
    IF b >= 0
    THEN IF a >= I32Min + b THEN a - b ELSE I32Max - ((b - 1) - (a - I32Min))
    ELSE IF a <= I32Max + b THEN a - b ELSE I32Min + (((a - I32Max) - 1) - b)

\* The depths explored: around both ends of the removable band and at the
\* ends of i32.
Depths ==
    {I32Min, -1, 0, AVM_DEPTH_BIAS - 1, AVM_DEPTH_BIAS, AVM_DEPTH_BIAS + 1,
     AVM_MAX_REMOVE_DEPTH - 1, AVM_MAX_REMOVE_DEPTH, AVM_MAX_REMOVE_DEPTH + 1,
     I32Max}
\* What avm1_parent() can be: nothing, a movie clip, or another kind of
\* display object.
Parents == {None, "movie_clip", "button"}

\* A display object `this` at a depth under a parent, beside the parent's
\* other children.  A removed object is no longer among them.
DisplayInput(depth, removed, parent, siblings) ==
    [depth |-> depth, removed |-> removed, avm1_parent |-> parent,
     children |-> IF parent = None THEN <<>>
                  ELSE IF removed THEN siblings ELSE siblings \o <<"this">>]

\* `this.avm1_parent().and_then(|o| o.as_movie_clip())`
as_movie_clip(parent) == IF parent = "movie_clip" THEN parent ELSE None

\* TDisplayObjectContainer::remove_child: the child leaves the parent's lists
\* and is marked removed.
remove_child(d) ==
    [d EXCEPT !.children = SelectSeq(@, LAMBDA child : child # "this"),
              !.removed = TRUE]

remove_display_object_above_bias(d) ==
    LET depth == wrapping_sub(d.depth, 0) IN
    IF depth > AVM_DEPTH_BIAS /\ depth < AVM_MAX_REMOVE_DEPTH /\ ~d.removed
    THEN IF as_movie_clip(d.avm1_parent) # None THEN remove_child(d) ELSE d
    ELSE d

\* remove_display_object
remove_display_object(d) ==
    LET depth == wrapping_sub(d.depth, 0) IN
    IF depth >= AVM_DEPTH_BIAS /\ depth < AVM_MAX_REMOVE_DEPTH /\ ~d.removed
    THEN IF as_movie_clip(d.avm1_parent) # None THEN remove_child(d) ELSE d
    ELSE d

\* remove_display_object is called on a display object.
RemoveDisplayObject(d) ==
    /\ remove_call' = [op |-> "remove_display_object", in |-> d,
                       out |-> remove_display_object(d)]
    /\ UNCHANGED not_display_vars

\* The caller goes on.
RemoveReturn ==
    /\ remove_call.op = "remove_display_object"
    /\ remove_call' = NoCall
    /\ UNCHANGED not_display_vars

DisplayNext ==
    \/ /\ remove_call.op = "none"
       /\ \E depth \in Depths, removed \in BOOLEAN, parent \in Parents,
             siblings \in {<<>>, <<"sibling">>, <<"sibling", "other">>} :
                RemoveDisplayObject(DisplayInput(depth, removed, parent, siblings))
    \/ RemoveReturn

\* Removals of display objects at all depths.
DisplaySpec == Init /\ [][DisplayNext]_vars

RemoveCalled == remove_call.op = "remove_display_object"
\* The call took the object out of its parent.
RemovedFromParent ==
    /\ \E i \in 1..Len(remove_call.in.children) : remove_call.in.children[i] = "this"
    /\ \A i \in 1..Len(remove_call.out.children) : remove_call.out.children[i] # "this"
    /\ remove_call.out.removed

(***************************************************************************)
(* C21.  remove_display_object removes the object from its parent iff its  *)
(* depth d satisfies 16384 <= d < 2130706416, it is not already removed    *)
(* and it has a movie-clip parent.  Otherwise the object and its parent    *)
(* are unchanged; in particular at depth 16383.  The parent's other        *)
(* children stay in either case.                                           *)
(***************************************************************************)
C21_RemoveDepthBand ==
    RemoveCalled =>
        LET d == remove_call.in IN
        /\ RemovedFromParent <=>
                /\ 16384 <= d.depth /\ d.depth < 2130706416
                /\ ~d.removed
                /\ d.avm1_parent = "movie_clip"
        /\ ~RemovedFromParent => remove_call.out = d
        /\ d.depth = 16383 => remove_call.out = d
        /\ SelectSeq(remove_call.out.children, LAMBDA child : child # "this")
                = SelectSeq(d.children, LAMBDA child : child # "this")

\* A live clip at depth exactly 16384 under a movie clip, beside a sibling:
\* it is removed, the sibling stays.
C21_Witness ==
    /\ RemoveCalled
    /\ remove_call.in.depth = 16384
    /\ remove_call.in.children = <<"sibling", "this">>
    /\ RemovedFromParent
    /\ remove_call.out.children = <<"sibling">>

(***************************************************************************)
(* avm2::globals::json: AvmSerializer                                      *)
(***************************************************************************)
\* The depth of nested serialize_value calls at which the native stack is
\* exhausted.
MaxRecursion == 4

\* The heap: two objects, each an Array, a boxed primitive or a plain object,
\* with two enumerable properties (the elements 0 and 1 of an Array) that
\* hold a primitive or a reference to one of the objects.
JsonObjects == {"o1", "o2"}
JsonKinds == {"object", "array", "primitive"}
JsonValues == {"prim"} \cup JsonObjects
Heaps == [JsonObjects -> [kind : JsonKinds, a : JsonValues, b : JsonValues]]
\* enum Replacer, or none: a property list, or a function that here answers
\* undefined for the keys it drops and the value itself for the others.
Replacers ==
    {[kind |-> "None", props |-> <<>>, drops |-> {}],
     [kind |-> "PropList", props |-> <<"a">>, drops |-> {}],
     [kind |-> "PropList", props |-> <<"b", "a">>, drops |-> {}],
     [kind |-> "Function", props |-> <<>>, drops |-> {"b", "1"}]}

\* obj.get_property of a named property, and the key of an Array element
get_property(heap, obj, key) == IF key = "a" THEN heap[obj].a ELSE heap[obj].b
ElementKeys == <<"0", "1">>
EnumerantNames == <<"a", "b">>

\* The serializer's own state: AvmSerializer.obj_stack, and a log of the
\* objects serialize_value has pushed, each with the stack after the push and,
\* once its serialization has succeeded, the stack after the pop.
NewSerializer == [obj_stack |-> <<>>, log |-> <<>>]

\* Result<JsonValue, Error>, with the serializer as the call leaves it
JsonOk(json, ser) == [err |-> "none", json |-> json, ser |-> ser]
JsonErr(err, ser) == [err |-> err, json |-> <<>>, ser |-> ser]
Error1129 == "TypeError: Error #1129: Cyclic structure cannot be converted to JSON string."

\* AvmSerializer::map_value, for values without a toJSON method
map_value(replacer, key, value) ==
    IF replacer.kind = "Function" /\ key \in replacer.drops THEN "Undefined" ELSE value

obj_stack_never_contains(obj_stack, obj) == FALSE

\* `self.obj_stack.contains(&obj)`
obj_stack_contains(obj_stack, obj) == \E i \in 1..Len(obj_stack) : obj_stack[i] = obj

\* `self.obj_stack.push(obj)`
obj_stack_push(ser, obj) ==
    [obj_stack |-> Append(ser.obj_stack, obj),
     log |-> Append(ser.log, [obj |-> obj, pushed |-> Append(ser.obj_stack, obj),
                              popped |-> <<>>])]

obj_stack_pop_nothing(ser, at) ==
    [ser EXCEPT !.log[at].popped = <<ser.obj_stack>>]

\* `self.obj_stack.pop().expect(..)`; `at` is the log entry of the push undone
obj_stack_pop(ser, at) ==
    LET popped == SubSeq(ser.obj_stack, 1, Len(ser.obj_stack) - 1) IN
    [obj_stack |-> popped, log |-> [ser.log EXCEPT ![at].popped = <<popped>>]]

RECURSIVE serialize_value(_, _, _, _)
RECURSIVE serialize_properties(_, _, _, _, _, _, _)
RECURSIVE serialize_elements(_, _, _, _, _, _)

\* serialize_object: the loop over the property list or over the enumerants,
\* from position i on, js_obj holding the pairs inserted so far.
serialize_properties(heap, replacer, ser, obj, keys, i, js_obj) ==
    IF i > Len(keys) THEN JsonOk(<<"object", js_obj>>, ser)
    ELSE LET key == keys[i]
             mapped == map_value(replacer, key, get_property(heap, obj, key))
         IN  IF mapped = "Undefined"
             THEN serialize_properties(heap, replacer, ser, obj, keys, i + 1, js_obj)
             ELSE LET r == serialize_value(heap, replacer, ser, mapped) IN
                  IF r.err # "none" THEN r
                  ELSE serialize_properties(heap, replacer, r.ser, obj, keys, i + 1,
                                            Append(js_obj, <<key, r.json>>))

\* AvmSerializer::serialize_object
serialize_object(heap, replacer, ser, obj) ==
    serialize_properties(heap, replacer, ser, obj,
                         IF replacer.kind = "PropList" THEN replacer.props
                         ELSE EnumerantNames,
                         1, <<>>)

\* serialize_iterable: the loop over the ArrayIter from element i on
serialize_elements(heap, replacer, ser, iterable, i, js_arr) ==
    IF i > Len(ElementKeys) THEN JsonOk(<<"array", js_arr>>, ser)
    ELSE LET item == get_property(heap, iterable, EnumerantNames[i])
             mapped == map_value(replacer, ElementKeys[i], item)
             r == serialize_value(heap, replacer, ser, mapped)
         IN  IF r.err # "none" THEN r
             ELSE serialize_elements(heap, replacer, r.ser, iterable, i + 1,
                                     Append(js_arr, r.json))

\* AvmSerializer::serialize_value.  The nested calls are as deep as the
\* object stack is long.
serialize_value(heap, replacer, ser, value) ==
    IF Len(ser.obj_stack) > MaxRecursion THEN JsonErr("stack overflow", ser)
    ELSE IF value = "Undefined" THEN JsonOk(<<"null">>, ser)
    ELSE IF value = "prim" THEN JsonOk(<<"string", "prim">>, ser)
    ELSE IF heap[value].kind = "primitive" THEN JsonOk(<<"string", "prim">>, ser)
    ELSE IF obj_stack_contains(ser.obj_stack, value) THEN JsonErr(Error1129, ser)
    ELSE LET pushed == obj_stack_push(ser, value)
             r == IF heap[value].kind = "array"
                  THEN serialize_elements(heap, replacer, pushed, value, 1, <<>>)
                  ELSE serialize_object(heap, replacer, pushed, value)
         IN  IF r.err # "none" THEN r
             ELSE JsonOk(r.json, obj_stack_pop(r.ser, Len(pushed.log)))

\* AvmSerializer::serialize, on a new serializer
serialize(heap, replacer, value) ==
    serialize_value(heap, replacer, NewSerializer, map_value(replacer, "", value))

\* JSON.stringify serializes a value.
Serialize(heap, replacer, value) ==
    /\ json_call' = [op |-> "serialize", heap |-> heap, replacer |-> replacer,
                     value |-> value, out |-> serialize(heap, replacer, value)]
    /\ UNCHANGED not_json_vars

\* JSON.stringify returns.
SerializeReturn ==
    /\ json_call.op = "serialize"
    /\ json_call' = NoCall
    /\ UNCHANGED not_json_vars

JsonNext ==
    \/ /\ json_call.op = "none"
       /\ \E heap \in Heaps, replacer \in Replacers, value \in JsonValues :
                Serialize(heap, replacer, value)
    \/ SerializeReturn

\* Serializations of all heaps under all replacers.
JsonSpec == Init /\ [][JsonNext]_vars

SerializeCalled == json_call.op = "serialize"
\* The references held by the properties and elements of the objects: all of
\* them, and those the serializer follows under a replacer (the listed
\* properties of a plain object under a property list; not what a replacer
\* function answers undefined for).
RefsOf(heap, o, keys) == {get_property(heap, o, k) : k \in keys} \cap JsonObjects
AllEdges(heap) ==
    {e \in JsonObjects \X JsonObjects :
        /\ heap[e[1]].kind # "primitive"
        /\ e[2] \in RefsOf(heap, e[1], {"a", "b"})}
FollowedKeys(heap, replacer, o) ==
    CASE heap[o].kind = "primitive" -> {}
      [] heap[o].kind = "array" ->
            {EnumerantNames[i] : i \in {j \in 1..2 : ElementKeys[j] \notin replacer.drops}}
      [] OTHER ->
            {k \in {"a", "b"} :
                /\ k \notin replacer.drops
                /\ replacer.kind = "PropList" =>
                        \E i \in 1..Len(replacer.props) : replacer.props[i] = k}
FollowedEdges(heap, replacer) ==
    {e \in JsonObjects \X JsonObjects :
        e[2] \in RefsOf(heap, e[1], FollowedKeys(heap, replacer, e[1]))}
\* The objects reachable from a set along edges, in at most n steps.
RECURSIVE Reach(_, _, _)
Reach(edges, from, n) ==
    IF n = 0 THEN from
    ELSE Reach(edges, from \cup {e[2] : e \in {d \in edges : d[1] \in from}}, n - 1)
\* An object reachable from the value is reachable from itself.
HasCycle(edges, value) ==
    /\ value \in JsonObjects
    /\ \E x \in Reach(edges, {value}, Cardinality(JsonObjects)) :
            x \in Reach(edges, {e[2] : e \in {d \in edges : d[1] = x}},
                        Cardinality(JsonObjects))

XmlNames == {"id", "x"}
NoAttribute == "NoAttribute"

\* AVM1 values with the string each coerces to.  An object coerces through
\* its toString, which can throw.
XmlValue(type, repr) == [type |-> type, repr |-> repr]
XmlValues ==
    {XmlValue("Undefined", "undefined"), XmlValue("Null", "null"),
     XmlValue("Number", "5"), XmlValue("Bool", "true"),
     XmlValue("String", "abc"), XmlValue("String", "5"),
     XmlValue("Object", "[object Object]"), XmlValue("Object", "throws")}
NoValue == XmlValue("None", "")
\* Value::coerce_to_string
coerce_to_string(value) ==
    IF value = XmlValue("Object", "throws") THEN XmlValue("Err", "toString threw")
    ELSE XmlValue("String", value.repr)

\* XmlNode::attribute_value
attribute_value(node, name) ==
    IF node[name] = NoAttribute THEN NoValue ELSE XmlValue("String", node[name])

\* The record of a call; it remembers the call made before it.
XmlCall(op, name, value, outcome) ==
    [op |-> op, name |-> name, value |-> value, result |-> outcome,
     prev |-> [op |-> xml_call.op, name |-> xml_call.name, value |-> xml_call.value,
               result |-> xml_call.result]]
XmlBool(b) == XmlValue("Bool", IF b THEN "true" ELSE "false")

set_local_on_base(name, value) ==
    LET string == coerce_to_string(value) IN
    /\ xml_base' = IF string.type = "Err" THEN xml_base ELSE xml_base \cup {name}
    /\ xml_call' = XmlCall("set_local", name, value,
                           IF string.type = "Err" THEN string ELSE XmlValue("Result", "Ok"))
    /\ UNCHANGED <<xml_node, not_xml_vars>>

\* XmlAttributesObject::set_local
set_local(name, value) ==
    LET string == coerce_to_string(value) IN
    /\ xml_node' = IF string.type = "Err" THEN xml_node
                   ELSE [xml_node EXCEPT ![name] = string.repr]
    /\ xml_call' = XmlCall("set_local", name, value,
                           IF string.type = "Err" THEN string ELSE XmlValue("Result", "Ok"))
    /\ UNCHANGED <<xml_base, not_xml_vars>>

\* XmlAttributesObject::get_local_stored
get_local_stored(name) ==
    /\ xml_call' = XmlCall("get_local_stored", name, NoValue, attribute_value(xml_node, name))
    /\ UNCHANGED <<xml_node, xml_base, not_xml_vars>>

\* ScriptObject::delete on the base object: removes an own slot and returns
\* whether a slot existed and was removed.
base_delete(base, name) == [base |-> base \ {name}, result |-> name \in base]

\* XmlAttributesObject::delete
delete(name) ==
    /\ xml_node' = [xml_node EXCEPT ![name] = NoAttribute]
    /\ xml_base' = base_delete(xml_base, name).base
    /\ xml_call' = XmlCall("delete", name, NoValue, XmlBool(base_delete(xml_base, name).result))
    /\ UNCHANGED not_xml_vars

\* XmlAttributesObject::define_value
xml_define_value(name, value) ==
    /\ xml_base' = xml_base \cup {name}
    /\ xml_call' = XmlCall("define_value", name, value, XmlValue("Result", "Ok"))
    /\ UNCHANGED <<xml_node, not_xml_vars>>

\* XmlAttributesObject::has_own_property
has_own_property(name) ==
    /\ xml_call' = XmlCall("has_own_property", name, NoValue,
                           XmlBool(attribute_value(xml_node, name) # NoValue))
    /\ UNCHANGED <<xml_node, xml_base, not_xml_vars>>

XmlNext ==
    \/ \E name \in XmlNames, value \in XmlValues : set_local(name, value)
    \/ \E name \in XmlNames : get_local_stored(name)
    \/ \E name \in XmlNames : delete(name)
    \/ \E name \in XmlNames : xml_define_value(name, XmlValue("String", "abc"))
    \/ \E name \in XmlNames : has_own_property(name)

\* Script code working on the attributes object of one XML element.
XmlSpec == Init /\ [][XmlNext]_vars

(***************************************************************************)
(* C23 as claimed.  After set(O, N, v) a following get(O, N) returns v.    *)
(***************************************************************************)
C23_GetReturnsValue ==
    /\ xml_call.op = "get_local_stored"
    /\ xml_call.prev.op = "set_local"
    /\ xml_call.prev.name = xml_call.name
    /\ xml_call.prev.result.type # "Err"
    => xml_call.result = xml_call.prev.value

(***************************************************************************)
(* C23 as amended.  After a set(O, N, v) that succeeded, a following       *)
(* get(O, N) returns the string that v coerces to; that is v itself only   *)
(* if v is a string.  A set whose coercion fails changes nothing.          *)
(***************************************************************************)
C23_GetReturnsString ==
    /\ [](/\ xml_call.op = "get_local_stored"
          /\ xml_call.prev.op = "set_local"
          /\ xml_call.prev.name = xml_call.name
          /\ xml_call.prev.result.type # "Err"
          => /\ xml_call.result = XmlValue("String", xml_call.prev.value.repr)
             /\ xml_call.result.type = "String")
    /\ [][xml_call'.op = "set_local" /\ xml_call'.result.type = "Err"
            => xml_node' = xml_node /\ xml_base' = xml_base]_vars

\* The number 5 was set and the string "5" is read back.
C23_Witness ==
    /\ xml_call.op = "get_local_stored"
    /\ xml_call.prev.op = "set_local"
    /\ xml_call.prev.name = xml_call.name
    /\ xml_call.prev.value = XmlValue("Number", "5")
    /\ xml_call.result = XmlValue("String", "5")

(***************************************************************************)
(* C24.  delete on an XmlAttributesObject returns true when the named XML  *)
(* attribute existed before the call, and the attribute is gone            *)
(* afterwards; it returns false when neither such an attribute nor such a  *)
(* property existed.                                                       *)
(***************************************************************************)
C24_DeleteResult ==
    [][xml_call'.op = "delete" =>
        LET name == xml_call'.name IN
        /\ xml_node'[name] = NoAttribute
        /\ xml_node[name] # NoAttribute => xml_call'.result = XmlBool(TRUE)
        /\ xml_node[name] = NoAttribute /\ name \notin xml_base
                => xml_call'.result = XmlBool(FALSE)]_vars

(***************************************************************************)
(* avm2::object::dictionary_object: DictionaryObject                       *)
(***************************************************************************)
\* The enumerable names of the base object and the objects used as keys.
BaseNames == {"p", "q"}
KeyObjects == {"k1", "k2", "k3"}
\* The sequences without repetition over a set: the enumerants of the base in
\* their order, the keys of the hash map in its iteration order.
Orderings(S) ==
    {seq \in UNION {[1..n -> S] : n \in 0..Cardinality(S)} :
        \A i, j \in 1..Len(seq) : i # j => seq[i] # seq[j]}
Dictionaries == [enumerants : Orderings(BaseNames), object_space : Orderings(KeyObjects)]

\* ScriptObjectData::get_last_enumerant: the number of enumerants of the base.
get_last_enumerant(base) == Len(base)
\* ScriptObjectData::get_enumerant_name: enumerants are numbered from 1, and 0
\* or an index beyond the last has no name.
base_get_enumerant_name(base, index) ==
    IF index >= 1 /\ index <= Len(base) THEN base[index] ELSE None
\* `keys().nth(n)`, counting from 0
keys_nth(object_space, n) ==
    IF n + 1 <= Len(object_space) THEN object_space[n + 1] ELSE None
\* Option::unwrap_or(Value::Undefined)
unwrap_or_undefined(option) == IF option = None THEN Undefined ELSE option
\* u32::saturating_sub
saturating_sub(a, b) == IF a < b THEN 0 ELSE a - b

\* Option<u32>: Some(index) and None
Some(index) == <<index>>
NoIndex == <<>>

\* DictionaryObject::get_next_enumerant (indices stay far below u32::MAX, where
\* saturating_add is addition)
get_next_enumerant(d, last_index) ==
    LET last_enumerant == get_last_enumerant(d.enumerants)
        object_space_length == Len(d.object_space)
    IN  IF last_index < last_enumerant + object_space_length
        THEN Some(last_index + 1)
        ELSE NoIndex

\* DictionaryObject::get_enumerant_name
get_enumerant_name(d, index) ==
    LET last_enumerant == get_last_enumerant(d.enumerants) IN
    IF index < last_enumerant
    THEN unwrap_or_undefined(base_get_enumerant_name(d.enumerants, index))
    ELSE LET object_space_index == saturating_sub(index, last_enumerant)
         IN  unwrap_or_undefined(keys_nth(d.object_space, object_space_index))

\* A for-in loop starts on a dictionary, at index 0.
StartEnumeration(d) ==
    /\ dict_pc \in {"idle", "done"}
    /\ dict' = d
    /\ dict_pc' = "enumerating"
    /\ dict_index' = 0
    /\ dict_names' = <<>>
    /\ UNCHANGED not_dict_vars

\* One turn of the loop: get_next_enumerant, then get_enumerant_name of the
\* index it gave.
NextEnumerant ==
    /\ dict_pc = "enumerating"
    /\ get_next_enumerant(dict, dict_index) # NoIndex
    /\ dict_index' = get_next_enumerant(dict, dict_index)[1]
    /\ dict_names' = Append(dict_names, get_enumerant_name(dict, dict_index'))
    /\ UNCHANGED <<dict, dict_pc, not_dict_vars>>

\* get_next_enumerant returns None: the loop ends.
EndEnumeration ==
    /\ dict_pc = "enumerating"
    /\ get_next_enumerant(dict, dict_index) = NoIndex
    /\ dict_pc' = "done"
    /\ UNCHANGED <<dict, dict_index, dict_names, not_dict_vars>>

DictNext ==
    \/ \E d \in Dictionaries : StartEnumeration(d)
    \/ NextEnumerant
    \/ EndEnumeration

\* Enumerations of dictionaries with up to two names and three keys.
DictSpec == Init /\ [][DictNext]_vars

\* How often a value was yielded.
TimesYielded(value) == Cardinality({i \in 1..Len(dict_names) : dict_names[i] = value})

(***************************************************************************)
(* C25.  Enumerating a Dictionary from index 0 with get_next_enumerant     *)
(* until it returns None, converting each index with get_enumerant_name,   *)
(* yields every enumerable name of the base object and every object-space  *)
(* key exactly once, and never yields Undefined.                           *)
(***************************************************************************)
C25_EnumeratesAll ==
    /\ \A i \in 1..Len(dict_names) : dict_names[i] # "Undefined"
    /\ dict_pc = "done" =>
        /\ \A i \in 1..Len(dict.enumerants) : TimesYielded(dict.enumerants[i]) = 1
        /\ \A i \in 1..Len(dict.object_space) : TimesYielded(dict.object_space[i]) = 1

(***************************************************************************)
(* C26.  A listener registered with use_capture = true is invoked only     *)
(* while the event is in the Capturing phase, and a listener registered    *)
(* with use_capture = false only in the AtTarget and Bubbling phases:      *)
(* every call made in a pass is the call of a handler registered on the    *)
(* pass's target with use_capture = true if the pass is a capturing one    *)
(* and with use_capture = false otherwise, a handler is called at most     *)
(* once in a pass, and the running listener sees the event in the phase    *)
(* of its pass.                                                            *)
(***************************************************************************)
C26_CaptureFlagPhase ==
    /\ \A i \in 1..Len(calls) :
        LET pass == passes[calls[i].pass] IN
        /\ pass.phase \in {Capturing, AtTarget, Bubbling}
        /\ IsRegistered(pass.list, calls[i].handler, pass.phase = Capturing)
        /\ Cardinality(CallsOfHandler(calls[i].pass, calls[i].handler)) = 1
    /\ pc = "in_listener" =>
        /\ calls[Len(calls)].pass = Len(passes)
        /\ event.event_phase = passes[Len(passes)].phase

\* A handler registered on an ancestor both ways: its use_capture = true
\* registration is called in the capturing pass on that ancestor and its
\* use_capture = false registration in the bubbling pass, once each.
C26_Witness ==
    /\ Returned
    /\ \E p, q \in 1..Len(passes), h \in Handlers :
        /\ passes[p].phase = Capturing
        /\ passes[q].phase = Bubbling
        /\ passes[p].target = passes[q].target
        /\ IsRegistered(passes[p].list, h, TRUE)
        /\ IsRegistered(passes[p].list, h, FALSE)
        /\ passes[q].list = passes[p].list
        /\ Cardinality(CallsOfHandler(p, h)) = 1
        /\ Cardinality(CallsOfHandler(q, h)) = 1

(***************************************************************************)
(* ListenerSpec: script code makes up to MaxListenerCalls calls of         *)
(* add_event_listener and remove_event_listener on the dispatch list of    *)
(* one object, each call recorded with the list it was made on.            *)
(***************************************************************************)
MaxListenerCalls == 4

ListenerAdd(ev, priority, handler, use_capture) ==
    /\ list_ops < MaxListenerCalls
    /\ list_ops' = list_ops + 1
    /\ dispatch_list' = [dispatch_list EXCEPT !["root"] =
            add_event_listener(@, ev, priority, handler, use_capture)]
    /\ reg_order' = IF dispatch_list' = dispatch_list THEN reg_order
                    ELSE [reg_order EXCEPT !["root"][ev] =
                            Append(@, EventHandlerNew(handler, use_capture))]
    /\ last_call' = [op |-> "add", obj |-> "root", ev |-> ev, priority |-> priority,
                     handler |-> handler, use_capture |-> use_capture,
                     before |-> dispatch_list["root"]]
    /\ UNCHANGED <<event, pc, dispatch_vars, result, hist_vars>>
    /\ UNCHANGED not_event_vars

ListenerRemove(ev, handler, use_capture) ==
    /\ list_ops < MaxListenerCalls
    /\ list_ops' = list_ops + 1
    /\ dispatch_list' = [dispatch_list EXCEPT !["root"] =
            remove_event_listener(@, ev, handler, use_capture)]
    /\ reg_order' = [reg_order EXCEPT !["root"][ev] =
            SelectSeq(@, LAMBDA eh : eh # EventHandlerNew(handler, use_capture))]
    /\ last_call' = [op |-> "remove", obj |-> "root", ev |-> ev,
                     handler |-> handler, use_capture |-> use_capture,
                     before |-> dispatch_list["root"]]
    /\ UNCHANGED <<event, pc, dispatch_vars, result, hist_vars>>
    /\ UNCHANGED not_event_vars

ListenerNext ==
    \/ \E ev \in EventTypes, priority \in Priorities, handler \in Handlers,
          use_capture \in BOOLEAN :
            ListenerAdd(ev, priority, handler, use_capture)
    \/ \E ev \in EventTypes, handler \in Handlers, use_capture \in BOOLEAN :
            ListenerRemove(ev, handler, use_capture)

ListenerSpec == Init /\ [][ListenerNext]_vars

(***************************************************************************)
(* C27.  add_event_listener for a (handler, use_capture) pair that is      *)
(* already registered for that event type, at any priority, does nothing:  *)
(* the dispatch list is as it was before the call, so the handler keeps    *)
(* its priority and its position among the handlers of that priority, and  *)
(* so is the order of registration.                                        *)
(***************************************************************************)
C27_AddRegisteredIsNoOp ==
    /\ [](last_call.op = "add"
            /\ IsRegistered(last_call.before[last_call.ev], last_call.handler,
                            last_call.use_capture)
          => dispatch_list[last_call.obj] = last_call.before)
    /\ [][last_call'.op = "add"
            /\ IsRegistered(last_call'.before[last_call'.ev], last_call'.handler,
                            last_call'.use_capture)
          => dispatch_list' = dispatch_list /\ reg_order' = reg_order]_vars

\* The pair registered first of two at one priority is registered again at
\* the other priority: it stays first at its priority.
C27_Witness ==
    /\ last_call.op = "add"
    /\ \E prio \in Priorities :
        /\ prio # last_call.priority
        /\ Len(last_call.before[last_call.ev][prio]) = 2
        /\ last_call.before[last_call.ev][prio][1]
                = EventHandlerNew(last_call.handler, last_call.use_capture)
        /\ dispatch_list[last_call.obj][last_call.ev][prio]
                = last_call.before[last_call.ev][prio]
        /\ dispatch_list[last_call.obj][last_call.ev][last_call.priority] = <<>>

(***************************************************************************)
(* C28.  remove_event_listener(event, handler, use_capture) removes the    *)
(* matching registration from whichever priority holds it and leaves every *)
(* other registration and their relative order unchanged: the same handler *)
(* with the opposite capture flag, other handlers, and all registrations   *)
(* of other event types.  has_event_listener(event) is true iff at least   *)
(* one registration for that type remains.                                 *)
(***************************************************************************)
C28_RemoveOnlyMatching ==
    /\ last_call.op = "remove" =>
        LET removed == EventHandlerNew(last_call.handler, last_call.use_capture)
            after == dispatch_list[last_call.obj]
        IN  /\ ~IsRegistered(after[last_call.ev], last_call.handler, last_call.use_capture)
            /\ \A prio \in Priorities :
                    after[last_call.ev][prio]
                        = SelectSeq(last_call.before[last_call.ev][prio],
                                    LAMBDA eh : eh # removed)
            /\ \A ev \in EventTypes \ {last_call.ev} : after[ev] = last_call.before[ev]
    /\ \A obj \in Objects, ev \in EventTypes :
            has_event_listener(dispatch_list[obj], ev)
                <=> \E h \in Handlers, c \in BOOLEAN : IsRegistered(dispatch_list[obj][ev], h, c)

\* A handler registered with both capture flags between two registrations of
\* another handler, all at one priority: removing its use_capture = true
\* registration leaves the other three in their order, and the type still
\* has listeners.
C28_Witness ==
    /\ last_call.op = "remove"
    /\ last_call.use_capture
    /\ \E prio \in Priorities, g \in Handlers \ {last_call.handler} :
        /\ last_call.before[last_call.ev][prio]
                = <<EventHandlerNew(last_call.handler, FALSE),
                    EventHandlerNew(last_call.handler, TRUE),
                    EventHandlerNew(g, TRUE)>>
        /\ dispatch_list[last_call.obj][last_call.ev][prio]
                = <<EventHandlerNew(last_call.handler, FALSE), EventHandlerNew(g, TRUE)>>
    /\ has_event_listener(dispatch_list[last_call.obj], last_call.ev)

(***************************************************************************)
(* The stage (display_object/stage.rs).  Sizes are (width, height) pairs   *)
(* of u32; the viewport scale factor is an f64, of which the whole         *)
(* factors 1 and 2 are modelled.                                           *)
(***************************************************************************)
StageSizes == {<<1, 1>>, <<3, 1>>, <<4, 2>>}
ScaleFactors == {1, 2}
StageScaleModes == {"ExactFit", "NoBorder", "NoScale", "ShowAll"}
StageAligns == {{}, {"TOP", "LEFT"}}
AvmTypes == {"Avm1", "Avm2"}

\* f64::from(n) / factor, then f64::round (half away from zero), as u32
round_div(n, factor) == (2 * n + factor) \div (2 * factor)

\* Avm2Event::new, then set_bubbles(false) and set_cancelable(false)
resized_event == [event_type |-> "resize", bubbles |-> FALSE, cancelable |-> FALSE]

\* Stage::fire_resize_event: what the call notifies, by the type of the movie
fire_resize_event(avm_type) ==
    IF avm_type = "Avm1"
    THEN <<[listeners |-> "Stage", method |-> "onResize"]>>
    ELSE <<[dispatch_event |-> resized_event, target |-> "stage"]>>

build_matrices_always_firing(st, avm_type) ==
    LET stage_size == IF st.scale_mode = "NoScale"
                      THEN <<round_div(st.viewport_size[1], st.viewport_scale_factor),
                             round_div(st.viewport_size[2], st.viewport_scale_factor)>>
                      ELSE st.movie_size
    IN  [stage |-> [st EXCEPT !.stage_size = stage_size],
         fired |-> IF st.scale_mode = "NoScale" THEN fire_resize_event(avm_type) ELSE <<>>]

\* Stage::build_matrices: the new stage_size and the notifications fired
\* (the view matrix and the view bounds are not modelled)
build_matrices(st, avm_type) ==
    LET scale_mode == st.scale_mode
        prev_stage_size == st.stage_size
        stage_size == IF st.scale_mode = "NoScale"
                      THEN <<round_div(st.viewport_size[1], st.viewport_scale_factor),
                             round_div(st.viewport_size[2], st.viewport_scale_factor)>>
                      ELSE st.movie_size
        stage_size_changed == prev_stage_size # stage_size
    IN  [stage |-> [st EXCEPT !.stage_size = stage_size],
         fired |-> IF scale_mode = "NoScale" /\ stage_size_changed
                   THEN fire_resize_event(avm_type) ELSE <<>>]

\* Stage::stage_size
stage_size_of(st) == st.stage_size

\* A setter that ends with build_matrices
StageCallBuilding(op, written, avm_type) ==
    LET built == build_matrices(written, avm_type) IN
    /\ stage' = built.stage
    /\ stage_call' = [op |-> op, built |-> TRUE, prev_stage_size |-> stage.stage_size,
                      fired |-> built.fired]
    /\ UNCHANGED not_stage_vars

set_scale_mode(scale_mode, avm_type) ==
    StageCallBuilding("set_scale_mode", [stage EXCEPT !.scale_mode = scale_mode], avm_type)

set_align(align, avm_type) ==
    StageCallBuilding("set_align", [stage EXCEPT !.align = align], avm_type)

set_viewport_size(size, scale_factor, avm_type) ==
    StageCallBuilding("set_viewport_size",
        [stage EXCEPT !.viewport_size = size, !.viewport_scale_factor = scale_factor],
        avm_type)

set_movie_size(size) ==
    /\ stage' = [stage EXCEPT !.movie_size = size]
    /\ stage_call' = [op |-> "set_movie_size", built |-> FALSE,
                      prev_stage_size |-> stage.stage_size, fired |-> <<>>]
    /\ UNCHANGED not_stage_vars

StageNext ==
    \/ \E scale_mode \in StageScaleModes, avm_type \in AvmTypes :
            set_scale_mode(scale_mode, avm_type)
    \/ \E align \in StageAligns, avm_type \in AvmTypes : set_align(align, avm_type)
    \/ \E size \in StageSizes, scale_factor \in ScaleFactors, avm_type \in AvmTypes :
            set_viewport_size(size, scale_factor, avm_type)
    \/ \E size \in StageSizes : set_movie_size(size)

StageSpec == Init /\ [][StageNext]_vars

(***************************************************************************)
(* C29.  After any sequence of set_scale_mode, set_align,                  *)
(* set_viewport_size and set_movie_size, stage_size() is the viewport size *)
(* divided by the scale factor when the scale mode is NoScale, and the     *)
(* movie size otherwise.                                                   *)
(***************************************************************************)
C29_StageSize ==
    stage_size_of(stage) =
        IF stage.scale_mode = "NoScale"
        THEN <<round_div(stage.viewport_size[1], stage.viewport_scale_factor),
               round_div(stage.viewport_size[2], stage.viewport_scale_factor)>>
        ELSE stage.movie_size

\* The resize event as a call of fire_resize_event delivers it: dispatched to
\* the stage in an AVM2 movie, as Stage.onResize in an AVM1 movie
OneResizeEvent(fired) ==
    \/ fired = <<[dispatch_event |->
            [event_type |-> "resize", bubbles |-> FALSE, cancelable |-> FALSE],
            target |-> "stage"]>>
    \/ fired = <<[listeners |-> "Stage", method |-> "onResize"]>>

MaxPool == 3

AbcQName(name) == [kind |-> "QName", name |-> name]
AbcRTQName(name) == [kind |-> "RTQName", name |-> name]
AbcTypeName(base_type, parameters) == [kind |-> "TypeName", base_type |-> base_type, parameters |-> parameters]

\* The entries that can stand at place i of a pool
AbcEntries(i) ==
    {AbcQName("Vector"), AbcQName("int"), AbcRTQName("rt")}
        \cup {AbcTypeName(b, ps) : b \in 0..(i - 1),
                ps \in {<<>>} \cup {<<p>> : p \in 0..(i - 1)} \cup {<<p, p>> : p \in 0..(i - 1)}}

RECURSIVE PoolsOfLen(_)
PoolsOfLen(n) ==
    IF n = 0 THEN {<<>>}
    ELSE {Append(pool, abc_multiname) : pool \in PoolsOfLen(n - 1), abc_multiname \in AbcEntries(n)}

AbcPools == PoolsOfLen(MaxPool)

AbcOk(multiname) == [ok |-> TRUE, value |-> multiname, error |-> ""]
AbcErr(error) == [ok |-> FALSE, value |-> <<>>, error |-> error]

\* Multiname { ns, name, params } without ns
MultinameOf(name, params) == [name |-> name, params |-> params]

\* Multiname::any
any == MultinameOf("*", <<>>)

\* Multiname::resolve_multiname_index
resolve_multiname_index(pool, multiname_index) ==
    IF multiname_index = 0
    THEN AbcErr("Attempted to resolve a multiname at index zero. This is a bug.")
    ELSE IF multiname_index > Len(pool)
    THEN AbcErr("Unknown multiname constant")
    ELSE AbcOk(pool[multiname_index])

\* Multiname::resolve_multiname_params
resolve_multiname_params(abc_multiname) ==
    IF abc_multiname.kind = "TypeName"
    THEN AbcErr("Recursive TypeNames are not supported!")
    ELSE AbcOk(MultinameOf(abc_multiname.name, <<>>))

\* The parameter check and the loop over the parameters, which pushes each
\* resolved parameter to base.params and leaves at the first error
RECURSIVE push_params(_, _, _)
push_params(base, resolved, i) ==
    IF i > Len(resolved) THEN AbcOk(base)
    ELSE IF ~resolved[i].ok THEN resolved[i]
    ELSE push_params([base EXCEPT !.params = Append(@, resolved[i].value)], resolved, i + 1)

TooManyParameters == AbcErr("VerifyError: Multiname has parameters, no more than 1 is allowed")

\* Multiname::from_abc_multiname
RECURSIVE from_abc_multiname(_, _)
from_abc_multiname(pool, multiname_index) ==
    LET abc_multiname == resolve_multiname_index(pool, multiname_index) IN
    IF ~abc_multiname.ok THEN abc_multiname
    ELSE IF abc_multiname.value.kind = "TypeName"
    THEN LET base_multiname == resolve_multiname_index(pool, abc_multiname.value.base_type)
             parameters == abc_multiname.value.parameters
         IN  IF ~base_multiname.ok THEN base_multiname
             ELSE LET base == resolve_multiname_params(base_multiname.value) IN
                  IF ~base.ok THEN base
                  ELSE IF Len(parameters) > 1 THEN TooManyParameters
                  ELSE push_params(base.value,
                        [i \in 1..Len(parameters) |-> from_abc_multiname(pool, parameters[i])], 1)
    ELSE resolve_multiname_params(abc_multiname.value)

\* Multiname::from_abc_multiname_static
RECURSIVE from_abc_multiname_static(_, _)
from_abc_multiname_static(pool, multiname_index) ==
    IF multiname_index = 0
    THEN AbcErr("Attempted to resolve a (static) multiname at index zero. This is a bug.")
    ELSE IF multiname_index > Len(pool) THEN AbcErr("Unknown multiname constant")
    ELSE LET abc_multiname == pool[multiname_index] IN
         IF abc_multiname.kind = "QName" THEN AbcOk(MultinameOf(abc_multiname.name, <<>>))
         ELSE IF abc_multiname.kind = "TypeName"
         THEN LET base == from_abc_multiname_static(pool, abc_multiname.base_type)
                  parameters == abc_multiname.parameters
              IN  IF ~base.ok THEN base
                  ELSE IF Len(parameters) > 1 THEN TooManyParameters
                  ELSE push_params(base.value,
                        [i \in 1..Len(parameters) |->
                            IF parameters[i] = 0 THEN AbcOk(any)
                            ELSE from_abc_multiname_static(pool, parameters[i])], 1)
         ELSE AbcErr("Multiname is not static")

FromAbcMultiname(pool, multiname_index) ==
    /\ abc_call' = [op |-> "from_abc_multiname", pool |-> pool, index |-> multiname_index,
                    out |-> from_abc_multiname(pool, multiname_index)]
    /\ UNCHANGED not_abc_vars

FromAbcMultinameStatic(pool, multiname_index) ==
    /\ abc_call' = [op |-> "from_abc_multiname_static", pool |-> pool, index |-> multiname_index,
                    out |-> from_abc_multiname_static(pool, multiname_index)]
    /\ UNCHANGED not_abc_vars

AbcReturn ==
    /\ abc_call.op # "none"
    /\ abc_call' = NoCall
    /\ UNCHANGED not_abc_vars

AbcNext ==
    \/ /\ abc_call.op = "none"
       /\ \E pool \in AbcPools, multiname_index \in 0..MaxPool :
            FromAbcMultiname(pool, multiname_index)
    \/ /\ abc_call.op = "none"
       /\ \E pool \in AbcPools, multiname_index \in 0..MaxPool :
            FromAbcMultinameStatic(pool, multiname_index)
    \/ AbcReturn

AbcSpec == Init /\ [][AbcNext]_vars

AbcCalled == abc_call.op # "none"
IsTypeName(pool, i) == i \in 1..Len(pool) /\ pool[i].kind = "TypeName"

(***************************************************************************)
(* C31.  A TypeName whose base type is itself a TypeName                   *)
(* (Vector.<int>.<int>) is rejected with an error by from_abc_multiname    *)
(* and by from_abc_multiname_static, while a TypeName over a QName base    *)
(* whose one type parameter is a TypeName that itself resolves             *)
(* (Vector.<Vector.<int>>) is accepted by both.                            *)
(***************************************************************************)
C31_RecursiveTypeNameRejected ==
    AbcCalled /\ IsTypeName(abc_call.pool, abc_call.index) =>
        LET pool == abc_call.pool
            type_name == pool[abc_call.index]
            param == type_name.parameters[1]
            resolves == IF abc_call.op = "from_abc_multiname"
                        THEN from_abc_multiname(pool, param).ok
                        ELSE from_abc_multiname_static(pool, param).ok
        IN  /\ IsTypeName(pool, type_name.base_type) => ~abc_call.out.ok
            /\ /\ type_name.base_type \in 1..Len(pool)
               /\ pool[type_name.base_type].kind = "QName"
               /\ Len(type_name.parameters) = 1
               /\ IsTypeName(pool, param)
               /\ resolves
               => /\ abc_call.out.ok
                  /\ Len(abc_call.out.value.params) = 1

(***************************************************************************)
(* The display state of the stage (display_object/stage.rs).  The UI       *)
(* backend's set_fullscreen is outside the core: whether it succeeds is an *)
(* input of each call.                                                     *)
(***************************************************************************)
StageDisplayStates == {"FullScreen", "FullScreenInteractive", "Normal"}

\* Stage::is_fullscreen_state
is_fullscreen_state(state) == state = "FullScreen" \/ state = "FullScreenInteractive"

\* Stage::fire_fullscreen_event with display_state as it is when the call is
\* made: the notification, and the state a listener reads while it runs
fire_fullscreen_event(state, avm_type) ==
    IF avm_type = "Avm1"
    THEN <<[listeners |-> "Stage", method |-> "onFullScreen",
            full_screen |-> is_fullscreen_state(state), state_read |-> state]>>
    ELSE <<[event_type |-> "fullScreen", bubbles |-> FALSE, cancelable |-> FALSE,
            full_screen |-> is_fullscreen_state(state), state_read |-> state]>>

set_display_state_firing_first(state, ui, requested, ui_ok, avm_type) ==
    IF requested = state \/ (is_fullscreen_state(requested) /\ is_fullscreen_state(state))
    THEN [display_state |-> state, ui_fullscreen |-> ui, ui_calls |-> <<>>, fired |-> <<>>]
    ELSE IF ui_ok
    THEN [display_state |-> requested, ui_fullscreen |-> is_fullscreen_state(requested),
          ui_calls |-> <<is_fullscreen_state(requested)>>,
          fired |-> fire_fullscreen_event(state, avm_type)]
    ELSE [display_state |-> state, ui_fullscreen |-> ui,
          ui_calls |-> <<is_fullscreen_state(requested)>>, fired |-> <<>>]

set_display_state_any_variant(state, ui, requested, ui_ok, avm_type) ==
    IF requested = state
    THEN [display_state |-> state, ui_fullscreen |-> ui, ui_calls |-> <<>>, fired |-> <<>>]
    ELSE IF ui_ok
    THEN [display_state |-> requested, ui_fullscreen |-> is_fullscreen_state(requested),
          ui_calls |-> <<is_fullscreen_state(requested)>>,
          fired |-> fire_fullscreen_event(requested, avm_type)]
    ELSE [display_state |-> state, ui_fullscreen |-> ui,
          ui_calls |-> <<is_fullscreen_state(requested)>>, fired |-> <<>>]

\* Stage::set_display_state: the state written, the set_fullscreen calls made
\* on the UI and the notifications fired
set_display_state(state, ui, requested, ui_ok, avm_type) ==
    IF requested = state \/ (is_fullscreen_state(requested) /\ is_fullscreen_state(state))
    THEN [display_state |-> state, ui_fullscreen |-> ui, ui_calls |-> <<>>, fired |-> <<>>]
    ELSE IF ui_ok
    THEN [display_state |-> requested, ui_fullscreen |-> is_fullscreen_state(requested),
          ui_calls |-> <<is_fullscreen_state(requested)>>,
          fired |-> fire_fullscreen_event(requested, avm_type)]
    ELSE [display_state |-> state, ui_fullscreen |-> ui,
          ui_calls |-> <<is_fullscreen_state(requested)>>, fired |-> <<>>]

DisplayStateCall(op, requested, ui_ok, avm_type) ==
    LET out == set_display_state(display_state, ui_fullscreen, requested, ui_ok, avm_type) IN
    /\ display_state' = out.display_state
    /\ ui_fullscreen' = out.ui_fullscreen
    /\ display_call' = [op |-> op, requested |-> requested, prev |-> display_state,
                        ui_calls |-> out.ui_calls, ui_ok |-> ui_ok, fired |-> out.fired]
    /\ UNCHANGED not_screen_vars

SetDisplayState(requested, ui_ok, avm_type) ==
    DisplayStateCall("set_display_state", requested, ui_ok, avm_type)

\* Stage::toggle_display_state
ToggleDisplayState(ui_ok, avm_type) ==
    DisplayStateCall("toggle_display_state",
        IF is_fullscreen_state(display_state) THEN "Normal" ELSE "FullScreen", ui_ok, avm_type)

ScreenNext ==
    \/ \E requested \in StageDisplayStates, ui_ok \in BOOLEAN, avm_type \in AvmTypes :
            SetDisplayState(requested, ui_ok, avm_type)
    \/ \E ui_ok \in BOOLEAN, avm_type \in AvmTypes : ToggleDisplayState(ui_ok, avm_type)
    \/ \E size \in StageSizes, scale_factor \in ScaleFactors, avm_type \in AvmTypes :
            set_viewport_size(size, scale_factor, avm_type)

ScreenSpec == Init /\ [][ScreenNext]_vars

DisplayStateCalled == display_call.op # "none"
Ignored ==
    \/ display_call.requested = display_call.prev
    \/ is_fullscreen_state(display_call.requested) /\ is_fullscreen_state(display_call.prev)

(***************************************************************************)
(* C32.  set_display_state changes nothing (no UI call, no event, state    *)
(* unchanged) when the requested state equals the current one or both are  *)
(* fullscreen variants; otherwise the UI is asked once and display_state   *)
(* becomes the requested state iff ui.set_fullscreen succeeds, and is left *)
(* unchanged when it fails.  No step takes the stage from FullScreen to    *)
(* FullScreenInteractive or back.                                          *)
(***************************************************************************)
C32_DisplayStateChange ==
    /\ [](DisplayStateCalled =>
            IF Ignored
            THEN /\ display_call.ui_calls = <<>>
                 /\ display_call.fired = <<>>
                 /\ display_state = display_call.prev
            ELSE /\ display_call.ui_calls = <<is_fullscreen_state(display_call.requested)>>
                 /\ display_call.ui_ok <=> display_state = display_call.requested
                 /\ ~display_call.ui_ok => display_state = display_call.prev)
    /\ [][~(is_fullscreen_state(display_state) /\ is_fullscreen_state(display_state')
                /\ display_state' # display_state)]_vars

\* FullScreenInteractive was asked for in FullScreen and ignored though the UI
\* would have accepted
C32_Witness ==
    /\ display_call.op = "set_display_state"
    /\ display_call.prev = "FullScreen"
    /\ display_call.requested = "FullScreenInteractive"
    /\ display_call.ui_ok
    /\ display_state = "FullScreen"
    /\ ui_fullscreen

(***************************************************************************)
(* C33.  Every successful change of the display state fires exactly one    *)
(* fullScreen notification, after display_state has been written: its      *)
(* full_screen payload and the state a listener reads are those of the new *)
(* state.  A request that is ignored or whose UI call fails fires none.    *)
(***************************************************************************)
C33_FullScreenNotification ==
    DisplayStateCalled =>
        IF display_state # display_call.prev
        THEN /\ Len(display_call.fired) = 1
             /\ display_call.fired[1].full_screen = is_fullscreen_state(display_state)
             /\ display_call.fired[1].state_read = display_state
             /\ display_state = display_call.requested
        ELSE display_call.fired = <<>>

\* Leaving fullscreen: the one notification carries full_screen = false
C33_Witness ==
    /\ DisplayStateCalled
    /\ display_call.prev = "FullScreenInteractive"
    /\ display_state = "Normal"
    /\ display_call.fired = <<[event_type |-> "fullScreen", bubbles |-> FALSE,
            cancelable |-> FALSE, full_screen |-> FALSE, state_read |-> "Normal"]>>

(***************************************************************************)
(* SnapshotSpec: one dispatch_event call.  Listeners for "click" are       *)
(* registered before the call; the listeners it calls register and remove  *)
(* listeners on any object, each such call recorded with the list it was   *)
(* made on, the number of the handler call it was made in and the number   *)
(* of the pass that call belongs to.                                       *)
(***************************************************************************)
MaxSnapshotOps == 3

\* DispatchList::add_event_listener on the dispatch list of `obj`, before the
\* dispatch_event call
AddBeforeDispatch(obj, ev, priority, handler, use_capture) ==
    /\ pc = "idle"
    /\ list_ops < MaxSnapshotOps
    /\ list_ops' = list_ops + 1
    /\ dispatch_list' = [dispatch_list EXCEPT ![obj] =
            add_event_listener(@, ev, priority, handler, use_capture)]
    /\ reg_order' = IF dispatch_list' = dispatch_list THEN reg_order
                    ELSE [reg_order EXCEPT ![obj][ev] =
                            Append(@, EventHandlerNew(handler, use_capture))]
    /\ UNCHANGED <<last_call, event, pc, dispatch_vars, result, hist_vars>>
    /\ UNCHANGED not_event_vars

\* The same, called by a listener
AddDuringDispatch(obj, ev, priority, handler, use_capture) ==
    /\ InListener
    /\ list_ops < MaxSnapshotOps
    /\ list_ops' = list_ops + 1
    /\ dispatch_list' = [dispatch_list EXCEPT ![obj] =
            add_event_listener(@, ev, priority, handler, use_capture)]
    /\ reg_order' = IF dispatch_list' = dispatch_list THEN reg_order
                    ELSE [reg_order EXCEPT ![obj][ev] =
                            Append(@, EventHandlerNew(handler, use_capture))]
    /\ last_call' = [op |-> "add", obj |-> obj, ev |-> ev, handler |-> handler,
                     use_capture |-> use_capture, before |-> dispatch_list[obj],
                     in_call |-> Len(calls), in_pass |-> Len(passes)]
    /\ UNCHANGED <<event, pc, dispatch_vars, result, hist_vars>>
    /\ UNCHANGED not_event_vars

\* DispatchList::remove_event_listener, called by a listener
RemoveDuringDispatch(obj, ev, handler, use_capture) ==
    /\ InListener
    /\ list_ops < MaxSnapshotOps
    /\ list_ops' = list_ops + 1
    /\ dispatch_list' = [dispatch_list EXCEPT ![obj] =
            remove_event_listener(@, ev, handler, use_capture)]
    /\ reg_order' = [reg_order EXCEPT ![obj][ev] =
            SelectSeq(@, LAMBDA eh : eh # EventHandlerNew(handler, use_capture))]
    /\ last_call' = [op |-> "remove", obj |-> obj, ev |-> ev, handler |-> handler,
                     use_capture |-> use_capture, before |-> dispatch_list[obj],
                     in_call |-> Len(calls), in_pass |-> Len(passes)]
    /\ UNCHANGED <<event, pc, dispatch_vars, result, hist_vars>>
    /\ UNCHANGED not_event_vars

SnapshotNext ==
    \/ \E obj \in Objects, handler \in Handlers, use_capture \in BOOLEAN :
            AddBeforeDispatch(obj, "click", 0, handler, use_capture)
    \/ \E obj \in Objects, handler \in Handlers, use_capture \in BOOLEAN :
            AddDuringDispatch(obj, "click", 0, handler, use_capture)
    \/ \E obj \in Objects, handler \in Handlers, use_capture \in BOOLEAN :
            RemoveDuringDispatch(obj, "click", handler, use_capture)
    \/ \E this \in Objects, bubbles \in BOOLEAN :
            DispatchEvent(this, set_bubbles(EventNew("click"), bubbles))
    \/ ListenerReturn
    \/ ListenerError

SnapshotSpec == Init /\ [][SnapshotNext]_vars

\* The passes entered after the last change a listener made to a dispatch
\* list, on the object it changed and in a phase its capture flag is for,
\* that ran to the end of their handlers
PassesAfterChange ==
    {p \in 1..Len(passes) :
        /\ p > last_call.in_pass
        /\ passes[p].target = last_call.obj
        /\ (passes[p].phase = Capturing) = last_call.use_capture
        /\ PassComplete(p)}

(***************************************************************************)
(* C34.  The handlers of a target are collected when dispatch reaches the  *)
(* target, not when dispatch_event is called: a handler that a listener    *)
(* registers on a target not yet visited is invoked (once) when that       *)
(* target is visited later in the same dispatch_event call, and a handler  *)
(* that a listener removes from a target not yet visited is not invoked    *)
(* there.                                                                  *)
(***************************************************************************)
C34_SnapshotPerTarget ==
    last_call.op # "none" =>
        \A p \in PassesAfterChange :
            Cardinality(CallsOfHandler(p, last_call.handler))
                = IF last_call.op = "add" THEN 1 ELSE 0

\* f is registered on root for capturing and on leaf before dispatch_event is
\* called on leaf.  Called in the capturing pass on root, f removes its
\* registration on leaf: the at-target pass on leaf is entered with an empty
\* list and calls nothing.
C34_Witness ==
    /\ Returned
    /\ this_target = "leaf"
    /\ last_call.op = "remove"
    /\ last_call.obj = "leaf"
    /\ last_call.handler = "f"
    /\ ~last_call.use_capture
    /\ last_call.before["click"][0] = <<EventHandlerNew("f", FALSE)>>
    /\ last_call.in_call = 1
    /\ calls[1].target = "root"
    /\ calls[1].handler = "f"
    /\ \E p \in PassesAfterChange : passes[p].phase = AtTarget /\ passes[p].list[0] = <<>>
    /\ Len(calls) = 1
(***************************************************************************)
(* StoppedSpec: events that script code has already called methods on.     *)
(* As CancelSpec, but the event handed to dispatch_event has had up to two *)
(* of cancel, stop_propagation and stop_immediate_propagation called on    *)
(* it, as an event has that was dispatched before and is dispatched again. *)
(***************************************************************************)
UsedEvents ==
    {PreOp(PreOp(set_cancelable(set_bubbles(EventNew("click"), b), c), first), second) :
        b \in BOOLEAN, c \in BOOLEAN, first \in PreOps, second \in PreOps}

StoppedNext ==
    \/ Cancel
    \/ StopPropagation
    \/ StopImmediatePropagation
    \/ \E obj \in Objects, use_capture \in BOOLEAN :
            AddEventListener(obj, "click", 0, "f", use_capture)
                /\ UNCHANGED last_call
    \/ \E this \in Objects, ev \in UsedEvents : DispatchEvent(this, ev)
    \/ ListenerReturn
    \/ Return

StoppedSpec == Init /\ [][StoppedNext]_vars

\* The place of a propagation mode in Allow, Stop, StopImmediate
ModeRank(mode) == CASE mode = "Allow" -> 0 [] mode = "Stop" -> 1 [] OTHER -> 2

(***************************************************************************)
(* C35.  An event's propagation mode only moves forward (Allow, Stop,      *)
(* StopImmediate): no stop_propagation or stop_immediate_propagation call  *)
(* and no step of dispatch_event takes it back, and dispatch_event starts  *)
(* from the mode the event came with.  So a dispatch of an event whose     *)
(* propagation is already stopped invokes no listener on any target and    *)
(* returns the negation of the event's cancelled flag.                     *)
(***************************************************************************)
C35_PropagationForward ==
    /\ [](\A e \in UsedEvents :
            /\ ModeRank(stop_propagation(e).propagation) >= ModeRank(e.propagation)
            /\ ModeRank(stop_immediate_propagation(e).propagation) >= ModeRank(e.propagation))
    /\ [](pc # "idle" => ModeRank(event.propagation) >= ModeRank(entry.propagation))
    /\ [][pc # "idle" /\ pc' # "idle"
            => ModeRank(event'.propagation) >= ModeRank(event.propagation)]_vars
    /\ [](pc # "idle" /\ is_propagation_stopped(entry) =>
            /\ calls = <<>>
            /\ passes = <<>>
            /\ pc = "done"
            /\ result = Ok(~is_cancelled(entry)))

\* A cancelled event whose propagation was stopped is dispatched on leaf while
\* root, mid and leaf have listeners: none is called and the result is false.
\* (The listeners are on two of the objects: MaxListOps registrations.)
C35_Witness ==
    /\ pc = "done"
    /\ is_propagation_stopped(entry)
    /\ is_cancelled(entry)
    /\ this_target = "leaf"
    /\ has_event_listener(dispatch_list["root"], "click")
    /\ has_event_listener(dispatch_list["leaf"], "click")
    /\ calls = <<>>
    /\ result = Ok(FALSE)

(***************************************************************************)
(* The registers when the body of an interpreted call starts.              *)
(***************************************************************************)
\* The set_local_register calls exec made for register r, as places of writes
WritesTo(f, r) == {i \in 1..Len(f.writes) : f.writes[i].register = r}
\* The last of them: what the register holds when the body starts
LastWriteTo(f, r) == f.writes[CHOOSE i \in WritesTo(f, r) : \A j \in WritesTo(f, r) : j <= i]

(***************************************************************************)
(* C36.  In an interpreted call the declared parameters are bound after    *)
(* all preloads: every set_local_register call for a parameter comes after *)
(* every preload.  So a register that a parameter declares holds, when the *)
(* body starts, the value of the last parameter declared for it (its       *)
(* argument, or undefined if none was supplied), also when a preload went  *)
(* to the same register.                                                   *)
(***************************************************************************)
C36_ParamsAfterPreloads ==
    Completed =>
        LET c == exec_call.in
            f == exec_call.out
        IN  /\ \A i \in 1..Len(f.writes), j \in 1..Len(f.writes) :
                    f.writes[i].what = "param" /\ f.writes[j].what # "param" => j < i
            /\ \A k \in 1..Len(c.params) :
                    /\ c.params[k].register # 0
                    /\ \A l \in (k + 1)..Len(c.params) :
                            c.params[l].register # c.params[k].register
                    => /\ LastWriteTo(f, c.params[k].register).what = "param"
                       /\ LastWriteTo(f, c.params[k].register).value = args_iter(c, k)

\* Two parameters declare register 2, which the arguments object was preloaded
\* into; one argument is supplied: the register holds undefined.
C36_Witness ==
    /\ Completed
    /\ Len(exec_call.in.params) = 2
    /\ exec_call.in.params[1].register = 2
    /\ exec_call.in.params[2].register = 2
    /\ exec_call.in.args = <<"arg1">>
    /\ RegisterOf(exec_call.out, "arguments") = 2
    /\ Cardinality(WritesTo(exec_call.out, 2)) = 3
    /\ LastWriteTo(exec_call.out, 2).value = Undefined

\* The same call with `this` an object and super not suppressed
WithSuperBinding(c) == [c EXCEPT !.this = "this_object", !.flags = @ \ {"SUPPRESS_SUPER"}]

(***************************************************************************)
(* C37.  When PRELOAD_SUPER is set but there is no super binding (`this`   *)
(* is not an object, or SUPPRESS_SUPER is set), no register is consumed    *)
(* for super (and no local named super is defined), and each later preload *)
(* (root, parent, global) goes to the register one lower than the one it   *)
(* goes to in the same call made with a super binding.                     *)
(***************************************************************************)
C37_NoSuperNoRegister ==
    /\ Called
    /\ "PRELOAD_SUPER" \in exec_call.in.flags
    /\ ~Available(exec_call.in, "super")
    => LET f == exec_call.out
           g == exec(WithSuperBinding(exec_call.in))
       IN  /\ RegisterOf(f, "super") = 0
           /\ \A i \in 1..Len(f.locals) : f.locals[i].what # "super"
           /\ RegisterOf(g, "super") # 0 \/ ~Allocated
           /\ \A what \in {"root", "parent", "global"} :
                /\ RegisterOf(f, what) # 0 <=> RegisterOf(g, what) # 0
                /\ RegisterOf(f, what) # 0 => RegisterOf(f, what) + 1 = RegisterOf(g, what)

\* this, root, parent and global are preloaded into registers 1 to 4, super
\* being suppressed though PRELOAD_SUPER is set.
C37_Witness ==
    /\ Completed
    /\ {"PRELOAD_SUPER", "SUPPRESS_SUPER"} \subseteq exec_call.in.flags
    /\ exec_call.in.this = "this_object"
    /\ RegisterOf(exec_call.out, "this") = 1
    /\ RegisterOf(exec_call.out, "root") = 2
    /\ RegisterOf(exec_call.out, "parent") = 3
    /\ RegisterOf(exec_call.out, "global") = 4

====
